---- MODULE Spec2Model ----
(***************************************************************************)
(* Media chunking and frame-serving core of cvat/apps/engine:              *)
(* MediaCache (cache.py) and the frame providers (frame_provider.py).      *)
(*                                                                         *)
(* Spec      the media cache used by one caller at a time, with the        *)
(*           out-of-band changes of the backing store                      *)
(* SpecConc  several workers inside _get_or_set_cache_item at once         *)
(***************************************************************************)
EXTENDS Integers, Sequences, FiniteSets, TLC

(***************************************************************************)
(* Bounds                                                                  *)
(***************************************************************************)
\* byte values used in chunk payloads are 0 .. MaxByte
MaxByte == 1
\* workers of the concurrent specification are 1 .. NumWorkers
NumWorkers == 2

(***************************************************************************)
(* Python values.  A value is None, a 2-tuple (data, mime) or a 3-tuple    *)
(* (data, mime, checksum); data is an io.BytesIO or None.                  *)
(***************************************************************************)
NoneData == [none |-> TRUE, bytes |-> <<>>]

BytesIO(b) == [none |-> FALSE, bytes |-> b]

\* a checksum is kept as two 16-bit halves <<high, low>> of the 32-bit value
NoneCrc == <<-1, -1>>

NoneMime == "None"

PyNone == [len |-> 0, data |-> NoneData, mime |-> NoneMime, crc |-> NoneCrc]

Tuple2(d, m) == [len |-> 2, data |-> d, mime |-> m, crc |-> NoneCrc]

Tuple3(d, m, c) == [len |-> 3, data |-> d, mime |-> m, crc |-> c]

\* bool(x): None is falsy, a non-empty tuple is truthy
Truthy(v) == v.len # 0

\* faulty variant: the test of item_data[0] is always passed
TruthyDataAlways(d) == TRUE

\* bool(data): io.BytesIO defines neither __bool__ nor __len__, so every
\* buffer, the empty one included, is truthy; None is falsy
TruthyData(d) == ~d.none

ByteStrings == {<<>>} \cup {<<b>> : b \in 0..MaxByte}

(***************************************************************************)
(* zlib.crc32 (reflected polynomial EDB88320, initial value and final xor  *)
(* FFFFFFFF), on 16-bit halves                                             *)
(***************************************************************************)
RECURSIVE XorBits(_, _, _)
XorBits(a, b, n) ==
    IF n = 0 THEN 0
    ELSE (((a % 2) + (b % 2)) % 2) + (2 * XorBits(a \div 2, b \div 2, n - 1))

Xor16(a, b) == XorBits(a, b, 16)

CrcShift(c) ==
    LET hi == c[1] \div 2
        lo == (c[2] \div 2) + ((c[1] % 2) * 32768)
    IN  IF c[2] % 2 = 1 THEN <<Xor16(hi, 60856), Xor16(lo, 33568)>>
        ELSE <<hi, lo>>

RECURSIVE CrcShifts(_, _)
CrcShifts(c, n) == IF n = 0 THEN c ELSE CrcShifts(CrcShift(c), n - 1)

RECURSIVE CrcUpdate(_, _)
CrcUpdate(c, bytes) ==
    IF bytes = <<>> THEN c
    ELSE CrcUpdate(CrcShifts(<<c[1], Xor16(c[2], Head(bytes))>>, 8), Tail(bytes))

Crc32(bytes) ==
    LET c == CrcUpdate(<<65535, 65535>>, bytes)
    IN  <<Xor16(c[1], 65535), Xor16(c[2], 65535)>>

\* the checksums of the payloads of the model, computed once
CrcTable == [b \in ByteStrings |-> Crc32(b)]

\* faulty variant: the checksum is taken of a buffer that was already read to its end
get_checksum_consumed(value) == CrcTable[<<>>]

get_checksum(value) == CrcTable[value]

(***************************************************************************)
(* Cache keys.  An f-string key is kept as the tuple of its fields.        *)
(***************************************************************************)
_make_task_chunk_key(task_id, chunk_number, quality) ==
    <<"task", task_id, chunk_number, quality>>

_make_segment_chunk_key(segment_id, chunk_number, quality) ==
    <<"segment", segment_id, chunk_number, quality>>

_make_context_image_key(data_id, frame_number) ==
    <<"context_image", data_id, frame_number>>

Qualities == {"original"}

SegmentIds == {1}

TaskIds == {1}

DataIds == {1}

ChunkNumbers == {0}

FrameNumbers == {0}

SegmentKeys ==
    {_make_segment_chunk_key(s, k, q) : s \in SegmentIds, k \in ChunkNumbers, q \in Qualities}

TaskKeys ==
    {_make_task_chunk_key(t, k, q) : t \in TaskIds, k \in ChunkNumbers, q \in Qualities}

ContextKeys == {_make_context_image_key(d, f) : d \in DataIds, f \in FrameNumbers}

Keys == SegmentKeys \cup TaskKeys \cup ContextKeys

(***************************************************************************)
(* The backing store caches["media"]: per key nothing, a pickled item, or  *)
(* a value that cannot be unpickled.                                       *)
(***************************************************************************)
Absent == [kind |-> "absent", item |-> PyNone]

Unreadable == [kind |-> "unreadable", item |-> PyNone]

Stored(item) == [kind |-> "item", item |-> item]

EmptyCache == [k \in Keys |-> Absent]

\* self._cache.get(key): None for a missing key, UnpicklingError for a
\* value that cannot be deserialized
CacheGet(c, key) ==
    CASE c[key].kind = "absent" -> [raised |-> FALSE, val |-> PyNone]
      [] c[key].kind = "unreadable" -> [raised |-> TRUE, val |-> PyNone]
      [] OTHER -> [raised |-> FALSE, val |-> c[key].item]

\* faulty variant: cache.add, which keeps an existing value
CacheAdd(c, key, item) ==
    IF c[key].kind = "absent" THEN [c EXCEPT ![key] = Stored(item)] ELSE c

\* self._cache.set(key, item)
CacheSet(c, key, item) == [c EXCEPT ![key] = Stored(item)]

\* self._cache.delete(key)
CacheDelete(c, key) == [c EXCEPT ![key] = Absent]

(***************************************************************************)
(* Results of a call: a returned value or a raised exception               *)
(***************************************************************************)
Return(v) == [kind |-> "return", val |-> v, exc |-> "none"]

Raise(e) == [kind |-> "raise", val |-> PyNone, exc |-> e]

(***************************************************************************)
(* MediaCache._get_or_set_cache_item                                       *)
(***************************************************************************)
\* faulty variant: the key is reserved with an empty item before the producer runs
create_item_reserving(c, key, callback) ==
    LET reserved == CacheSet(c, key, Tuple3(BytesIO(<<>>), NoneMime, get_checksum(<<>>)))
    IN  IF callback.kind = "raise"
        THEN [cache |-> reserved, raised |-> TRUE, exc |-> callback.exc, item |-> PyNone]
        ELSE LET item_data == callback.val
             IN  IF item_data.len = 0
                 THEN [cache |-> reserved, raised |-> TRUE, exc |-> "TypeError",
                       item |-> PyNone]
                 ELSE IF TruthyData(item_data.data)
                 THEN LET item == Tuple3(item_data.data, item_data.mime,
                                         get_checksum(item_data.data.bytes))
                      IN  [cache |-> CacheSet(c, key, item), raised |-> FALSE,
                           exc |-> "none", item |-> item]
                 ELSE [cache |-> reserved, raised |-> FALSE, exc |-> "none",
                       item |-> Tuple3(item_data.data, item_data.mime, NoneCrc)]

\* the nested create_item(); callback is what create_callback() does
create_item(c, key, callback) ==
    IF callback.kind = "raise"
    THEN [cache |-> c, raised |-> TRUE, exc |-> callback.exc, item |-> PyNone]
    ELSE LET item_data == callback.val
         IN  IF item_data.len = 0
             THEN \* item_data[0] on None
                  [cache |-> c, raised |-> TRUE, exc |-> "TypeError", item |-> PyNone]
             ELSE IF TruthyData(item_data.data)
             THEN LET item == Tuple3(item_data.data, item_data.mime,
                                     get_checksum(item_data.data.bytes))
                  IN  [cache |-> CacheSet(c, key, item), raised |-> FALSE,
                       exc |-> "none", item |-> item]
             ELSE [cache |-> c, raised |-> FALSE, exc |-> "none",
                   item |-> Tuple3(item_data.data, item_data.mime, NoneCrc)]

\* the item the lookup yields: None on a miss or an UnpicklingError
LookupItem(c, key) ==
    LET got == CacheGet(c, key)
    IN  IF got.raised THEN PyNone ELSE got.val

\* faulty variant: the stored checksum is not compared
ChecksumMismatchSkipped(item) == FALSE

\* item_checksum != self.get_checksum(item_data)
ChecksumMismatch(item) ==
    LET item_data == item.data.bytes
        item_checksum == IF item.len = 3 THEN item.crc ELSE NoneCrc
    IN  item_checksum # get_checksum(item_data)

\* faulty variant: every call rebuilds the item
NeedsCreateAlways(item) == TRUE

\* whether the call runs create_item()
NeedsCreate(item) == IF ~Truthy(item) THEN TRUE ELSE ChecksumMismatch(item)

_get_or_set_cache_item(c, key, callback) ==
    LET item == LookupItem(c, key)
        created == create_item(c, key, callback)
    IN  IF NeedsCreate(item)
        THEN [cache |-> created.cache,
              res |-> IF created.raised THEN Raise(created.exc)
                      ELSE Return(Tuple2(created.item.data, created.item.mime)),
              calls |-> 1]
        ELSE [cache |-> c, res |-> Return(Tuple2(item.data, item.mime)), calls |-> 0]

\* faulty variant: the whole cache is cleared
_delete_cache_item_clear(c, key) == [cache |-> EmptyCache, res |-> Return(PyNone)]

\* MediaCache._delete_cache_item: an UnpicklingError is logged, not raised
_delete_cache_item(c, key) == [cache |-> CacheDelete(c, key), res |-> Return(PyNone)]

\* MediaCache._get: the looked-up item as it is, None on UnpicklingError
_get(c, key) == Return(LookupItem(c, key))

(***************************************************************************)
(* Producers.  What a chunk or preview producer does is an input of the    *)
(* call: it raises, or returns a buffer with the MIME type of its family.  *)
(***************************************************************************)
MimeOf(key) ==
    IF key[1] = "segment" THEN "video/mp4" ELSE "application/zip"

ProducerOutcomes(key) ==
    {Raise("ProducerError")} \cup {Return(Tuple2(BytesIO(b), MimeOf(key))) : b \in ByteStrings}

\* set_callback of get_or_set_task_chunk is the caller's: it may also
\* return the pair (None, None)
CallerOutcomes(key) == ProducerOutcomes(key) \cup {Return(Tuple2(NoneData, NoneMime))}

\* the image record of (data_id, frame): none, or one with n related files
NoImage == [exists |-> FALSE, related |-> 0]

ImageWith(n) == [exists |-> TRUE, related |-> n]

ImageRecords == {NoImage} \cup {ImageWith(n) : n \in 0..MaxByte}

\* the bytes of the context archive, kept as one byte: its number of entries
ZipArchive(n) == <<n>>

\* MediaCache.prepare_context_images; encodes tells whether cv2.imencode
\* succeeds on the related files
prepare_context_images(image, encodes) ==
    IF ~image.exists THEN Return(PyNone)
    ELSE IF image.related = 0 THEN Return(Tuple2(NoneData, NoneMime))
    ELSE IF ~encodes THEN Raise("Exception")
    ELSE Return(Tuple2(BytesIO(ZipArchive(image.related)), "application/zip"))

\* what prepare_context_images can do, over the image records and the
\* outcomes of the encoding
ContextOutcomes ==
    {prepare_context_images(image, encodes) : image \in ImageRecords, encodes \in BOOLEAN}

(***************************************************************************)
(* State                                                                   *)
(***************************************************************************)
VARIABLES
    cache,      \* the media cache: key -> stored value
    last,       \* the call made last and its result (none after an
                \* out-of-band change)
    pc,         \* concurrent callers: where each worker is in
                \* _get_or_set_cache_item
    wkey,       \* the key of each worker's call
    witem,      \* each worker's local variable item
    wret,       \* what each worker's call returned
    produced,   \* per key, how often a producer ran
    lastWrite,  \* per key, the item of the most recent cache.set
    producerOf, \* the deterministic producer: key -> the bytes it builds
    loaders,    \* a segment frame provider's chunk loader of each quality:
                \* its chunk_id and chunk_reader
    readers,    \* every chunk reader opened so far, in order of opening
    lcall,      \* the loader call in progress and where it stands
    llast,      \* the loader call completed last and what it did
    task,       \* the task snapshot a task frame provider works on
    chunkCache, \* the segment and task chunk keys the media cache holds
    flast,      \* the frame provider call made last and what it did
    req,        \* what a chunk producer, a raw frame reader, a preview
                \* producer or a frame iterator was called with
    run         \* how far that call has got and what it has done

loaderVars == <<loaders, readers, lcall, llast>>

taskVars == <<task, chunkCache, flast>>

mediaVars == <<req, run>>

vars == <<cache, last, pc, wkey, witem, wret, produced, lastWrite, producerOf,
          loaderVars, taskVars, mediaVars>>

concVars == <<pc, wkey, witem, wret, produced, lastWrite, producerOf>>

\* no segment frame provider exists
LoaderIdle ==
    /\ loaders = <<>>
    /\ readers = <<>>
    /\ lcall = <<>>
    /\ llast = <<>>

\* no task frame provider exists
TaskIdle ==
    /\ task = <<>>
    /\ chunkCache = {}
    /\ flast = <<>>

\* no producer, reader or iterator is running
MediaIdle ==
    /\ req = <<>>
    /\ run = <<>>

Workers == 1..NumWorkers

NotCalled == [kind |-> "not called", val |-> PyNone, exc |-> "none"]

\* what the store held under key when a call began
EntryState(c, key) ==
    CASE c[key].kind # "item" -> c[key].kind
      [] c[key].kind = "item" /\ c[key].item.len # 3 -> "pair"
      [] c[key].kind = "item" /\ c[key].item.len = 3
            /\ c[key].item.crc = CrcTable[c[key].item.data.bytes] -> "valid"
      [] OTHER -> "mismatch"

NoCall == [op |-> "none", key |-> <<>>, callback |-> NotCalled, ret |-> Return(PyNone),
           calls |-> 0, via |-> "none", seen |-> "none", changed |-> {}]

\* the record of a call: what it was given, what it saw, how often the
\* producer ran, what it gave back and the keys whose stored value it changed
Call(op, key, callback, ret, calls, before, after) ==
    [op |-> op, key |-> key, callback |-> IF calls = 0 THEN NotCalled ELSE callback,
     ret |-> ret, calls |-> calls, via |-> "none", seen |-> EntryState(before, key),
     changed |-> {k \in Keys : before[k] # after[k]}]

ConcIdle ==
    /\ pc = [w \in Workers |-> "idle"]
    /\ wkey = [w \in Workers |-> <<>>]
    /\ witem = [w \in Workers |-> PyNone]
    /\ wret = [w \in Workers |-> Return(PyNone)]
    /\ produced = [k \in Keys |-> 0]
    /\ lastWrite = [k \in Keys |-> PyNone]

Init ==
    /\ cache = EmptyCache
    /\ last = NoCall
    /\ ConcIdle
    /\ producerOf = [k \in Keys |-> <<>>]
    /\ LoaderIdle
    /\ TaskIdle
    /\ MediaIdle

(***************************************************************************)
(* Calls of the media cache, one caller at a time                          *)
(***************************************************************************)
GetOrSet(op, key, callback) ==
    LET r == _get_or_set_cache_item(cache, key, callback)
    IN  /\ cache' = r.cache
        /\ last' = Call(op, key, callback, r.res, r.calls, cache, r.cache)
        /\ UNCHANGED <<concVars, loaderVars, taskVars, mediaVars>>

\* MediaCache.get_segment_chunk
get_segment_chunk ==
    \E s \in SegmentIds, k \in ChunkNumbers, q \in Qualities :
        LET key == _make_segment_chunk_key(s, k, q)
        IN  \E callback \in ProducerOutcomes(key) :
                GetOrSet("get_segment_chunk", key, callback)

\* MediaCache.get_or_set_task_chunk
get_or_set_task_chunk ==
    \E t \in TaskIds, k \in ChunkNumbers, q \in Qualities :
        LET key == _make_task_chunk_key(t, k, q)
        IN  \E set_callback \in CallerOutcomes(key) :
                GetOrSet("get_or_set_task_chunk", key, set_callback)

\* MediaCache.get_frame_context_images
get_frame_context_images ==
    \E d \in DataIds, f \in FrameNumbers, producer \in ContextOutcomes :
        GetOrSet("get_frame_context_images", _make_context_image_key(d, f), producer)

Lookup(op, key) ==
    /\ last' = Call(op, key, NotCalled, _get(cache, key), 0, cache, cache)
    /\ UNCHANGED <<cache, concVars, loaderVars, taskVars, mediaVars>>

\* MediaCache.get_task_chunk
get_task_chunk ==
    \E t \in TaskIds, k \in ChunkNumbers, q \in Qualities :
        Lookup("get_task_chunk", _make_task_chunk_key(t, k, q))

\* SegmentFrameProvider.get_frame_context_images
\* data, mime = ...: unpacking None is a TypeError
UnpackPair(r) ==
    IF r.kind = "raise" THEN r
    ELSE IF r.val.len = 0 THEN Raise("TypeError")
    ELSE r

\* if not data: return None; else DataWithMeta(data, mime=mime, checksum=None)
ContextResult(r) ==
    IF r.kind = "raise" THEN r
    ELSE IF ~TruthyData(r.val.data) THEN Return(PyNone)
    ELSE Return(Tuple3(r.val.data, r.val.mime, NoneCrc))

Segment_get_frame_context_images ==
    \E d \in DataIds, f \in FrameNumbers, producer \in ContextOutcomes,
       storage_method \in {"cache", "file_system"} :
        LET key == _make_context_image_key(d, f)
            viaCache == _get_or_set_cache_item(cache, key, producer)
            got == IF storage_method = "cache" THEN viaCache.res ELSE producer
            calls == IF storage_method = "cache" THEN viaCache.calls ELSE 1
            after == IF storage_method = "cache" THEN viaCache.cache ELSE cache
        IN  /\ cache' = after
            /\ last' = [Call("Segment_get_frame_context_images", key, producer,
                             ContextResult(UnpackPair(got)), calls, cache, after)
                        EXCEPT !.via = storage_method]
            /\ UNCHANGED <<concVars, loaderVars, taskVars, mediaVars>>

\* MediaCache.remove_segment_chunk
remove_segment_chunk ==
    \E s \in SegmentIds, k \in ChunkNumbers, q \in Qualities :
        LET key == _make_segment_chunk_key(s, k, q)
            r == _delete_cache_item(cache, key)
        IN  /\ cache' = r.cache
            /\ last' = Call("remove_segment_chunk", key, NotCalled, r.res, 0, cache, r.cache)
            /\ UNCHANGED <<concVars, loaderVars, taskVars, mediaVars>>

(***************************************************************************)
(* Out-of-band changes of the backing store                                *)
(***************************************************************************)
\* a byte of a stored buffer is overwritten; the stored checksum stays
CorruptEntry ==
    \E key \in Keys, b \in ByteStrings :
        /\ cache[key].kind = "item"
        /\ Len(b) = Len(cache[key].item.data.bytes)
        /\ b # cache[key].item.data.bytes
        /\ cache' = [cache EXCEPT ![key].item.data = BytesIO(b)]
        /\ last' = NoCall
        /\ UNCHANGED <<concVars, loaderVars, taskVars, mediaVars>>

\* a stored value can no longer be unpickled
BreakEntry ==
    \E key \in Keys :
        /\ cache[key].kind = "item"
        /\ cache' = [cache EXCEPT ![key] = Unreadable]
        /\ last' = NoCall
        /\ UNCHANGED <<concVars, loaderVars, taskVars, mediaVars>>

\* an entry written as a (data, mime) pair, without a checksum
StorePair ==
    \E key \in Keys, b \in ByteStrings :
        /\ cache[key].kind = "absent"
        /\ cache' = [cache EXCEPT ![key] = Stored(Tuple2(BytesIO(b), MimeOf(key)))]
        /\ last' = NoCall
        /\ UNCHANGED <<concVars, loaderVars, taskVars, mediaVars>>

\* the backend drops an entry (timeout, eviction)
ExpireEntry ==
    \E key \in Keys :
        /\ cache[key].kind # "absent"
        /\ cache' = [cache EXCEPT ![key] = Absent]
        /\ last' = NoCall
        /\ UNCHANGED <<concVars, loaderVars, taskVars, mediaVars>>

Next ==
    \/ get_segment_chunk
    \/ get_or_set_task_chunk
    \/ get_frame_context_images
    \/ get_task_chunk
    \/ Segment_get_frame_context_images
    \/ remove_segment_chunk
    \/ CorruptEntry
    \/ BreakEntry
    \/ StorePair
    \/ ExpireEntry

Spec == Init /\ [][Next]_vars

(***************************************************************************)
(* Several workers inside _get_or_set_cache_item on the same key.  Each    *)
(* cache.get and cache.set is atomic; the producer runs between them.      *)
(***************************************************************************)
ConcKeys == SegmentKeys

\* what a key may hold when the calls begin, given the bytes b the
\* producer builds for it: nothing, an unreadable value, the entry an
\* earlier call stored, that entry with a byte overwritten, or a pair
InitialEntries(key, b) ==
    {Absent, Unreadable, Stored(Tuple3(BytesIO(b), MimeOf(key), CrcTable[b])),
     Stored(Tuple2(BytesIO(b), MimeOf(key)))}
    \cup {Stored(Tuple3(BytesIO(x), MimeOf(key), CrcTable[b])) :
             x \in {y \in ByteStrings : Len(y) = Len(b) /\ y # b}}

InitConc ==
    /\ last = NoCall
    /\ ConcIdle
    /\ LoaderIdle
    /\ TaskIdle
    /\ MediaIdle
    /\ producerOf \in [Keys -> ByteStrings]
    /\ \A k \in Keys \ ConcKeys : producerOf[k] = <<>>
    /\ cache \in [Keys -> UNION {InitialEntries(k, b) : k \in Keys, b \in ByteStrings}]
    /\ \A k \in ConcKeys : cache[k] \in InitialEntries(k, producerOf[k])
    /\ \A k \in Keys \ ConcKeys : cache[k] = Absent

\* a worker enters _get_or_set_cache_item(key, create_callback)
Enter(w) ==
    \E key \in ConcKeys :
        /\ pc[w] = "idle"
        /\ pc' = [pc EXCEPT ![w] = "get"]
        /\ wkey' = [wkey EXCEPT ![w] = key]
        /\ UNCHANGED <<cache, last, witem, wret, produced, lastWrite, producerOf,
                 loaderVars, taskVars, mediaVars>>

\* item = self._cache.get(key), then the checksum comparison
GetItem(w) ==
    /\ pc[w] = "get"
    /\ witem' = [witem EXCEPT ![w] = LookupItem(cache, wkey[w])]
    /\ pc' = [pc EXCEPT ![w] = IF NeedsCreate(LookupItem(cache, wkey[w]))
                                 THEN "create" ELSE "return"]
    /\ UNCHANGED <<cache, last, wkey, wret, produced, lastWrite, producerOf,
                 loaderVars, taskVars, mediaVars>>

\* create_item(): item_data = create_callback(), then the checksum
RunProducer(w) ==
    /\ pc[w] = "create"
    /\ produced' = [produced EXCEPT ![wkey[w]] = @ + 1]
    /\ witem' = [witem EXCEPT ![w] =
                    Tuple3(BytesIO(producerOf[wkey[w]]), MimeOf(wkey[w]),
                           get_checksum(producerOf[wkey[w]]))]
    /\ pc' = [pc EXCEPT ![w] = "set"]
    /\ UNCHANGED <<cache, last, wkey, wret, lastWrite, producerOf,
                 loaderVars, taskVars, mediaVars>>

\* create_item(): self._cache.set(key, item)
SetItem(w) ==
    /\ pc[w] = "set"
    /\ cache' = CacheSet(cache, wkey[w], witem[w])
    /\ lastWrite' = [lastWrite EXCEPT ![wkey[w]] = witem[w]]
    /\ pc' = [pc EXCEPT ![w] = "return"]
    /\ UNCHANGED <<last, wkey, witem, wret, produced, producerOf,
                 loaderVars, taskVars, mediaVars>>

\* return item[0], item[1]
ReturnItem(w) ==
    /\ pc[w] = "return"
    /\ wret' = [wret EXCEPT ![w] = Return(Tuple2(witem[w].data, witem[w].mime))]
    /\ pc' = [pc EXCEPT ![w] = "done"]
    /\ UNCHANGED <<cache, last, wkey, witem, produced, lastWrite, producerOf,
                 loaderVars, taskVars, mediaVars>>

NextConc ==
    \E w \in Workers :
        \/ Enter(w)
        \/ GetItem(w)
        \/ RunProducer(w)
        \/ SetItem(w)
        \/ ReturnItem(w)

SpecConc == InitConc /\ [][NextConc]_vars

(***************************************************************************)
(* _ChunkLoader: the chunk a segment frame provider keeps decoded, one     *)
(* loader per quality.  A reader is named by the position at which it was  *)
(* opened; 0 stands for None.                                              *)
(***************************************************************************)
\* the largest chunk id asked of a loader
MaxChunkId == 1
\* how many readers the loaders may open in one run
MaxReaders == 3

LoaderQualities == {"compressed", "original"}

LoaderChunkIds == 0..MaxChunkId

\* chunk_id = None
NoChunk == -1

\* chunk_reader = None
NoReader == 0

\* _ChunkLoader.__init__
NewLoader == [chunk_id |-> NoChunk, chunk_reader |-> NoReader]

\* RandomAccessIterator(reader_class([data])): a reader comes into being open
OpenReader(quality, chunk_id) ==
    [quality |-> quality, chunk |-> chunk_id, open |-> TRUE, closes |-> 0]

\* RandomAccessIterator.close
CloseReader(rs, r) == [rs EXCEPT ![r].open = FALSE, ![r].closes = @ + 1]

Event(ev, arg) == [ev |-> ev, arg |-> arg]

\* faulty variant: the reader is dropped without being closed
_ChunkLoader_unload_dropping(loader, rs) ==
    [loader |-> NewLoader, readers |-> rs, events |-> <<>>]

\* faulty variant: the chunk id survives the unload
_ChunkLoader_unload_keeping_id(loader, rs) ==
    IF loader.chunk_reader # NoReader
    THEN [loader |-> [loader EXCEPT !.chunk_reader = NoReader],
          readers |-> CloseReader(rs, loader.chunk_reader),
          events |-> <<Event("close", loader.chunk_reader)>>]
    ELSE [loader |-> loader, readers |-> rs, events |-> <<>>]

\* _ChunkLoader.unload
_ChunkLoader_unload(loader, rs) ==
    IF loader.chunk_reader # NoReader
    THEN [loader |-> NewLoader,
          readers |-> CloseReader(rs, loader.chunk_reader),
          events |-> <<Event("close", loader.chunk_reader)>>]
    ELSE [loader |-> NewLoader, readers |-> rs, events |-> <<>>]

\* faulty variant: every load is taken for a new chunk
SameChunkNever(loader, chunk_id) == FALSE

\* _ChunkLoader.load: the test self.chunk_id != chunk_id, negated
SameChunk(loader, chunk_id) == loader.chunk_id = chunk_id

LoaderNoCall == [pc |-> "idle", quality |-> "none", chunk_id |-> NoChunk,
                 before |-> NewLoader, events |-> <<>>]

LoaderNoLast == [op |-> "none", quality |-> "none", chunk_id |-> NoChunk,
                 before |-> <<>>, events |-> <<>>, ret |-> NoReader,
                 raised |-> FALSE]

LoaderDone(op, quality, chunk_id, before, events, ret, raised) ==
    [op |-> op, quality |-> quality, chunk_id |-> chunk_id,
     before |-> before, events |-> events, ret |-> ret, raised |-> raised]

\* SegmentFrameProvider.__init__: a loader for each quality
InitLoader ==
    /\ cache = EmptyCache
    /\ last = NoCall
    /\ ConcIdle
    /\ producerOf = [k \in Keys |-> <<>>]
    /\ TaskIdle
    /\ MediaIdle
    /\ loaders = [q \in LoaderQualities |-> NewLoader]
    /\ readers = <<>>
    /\ lcall = LoaderNoCall
    /\ llast = LoaderNoLast

\* _ChunkLoader.load(chunk_id), up to the call of read_chunk: the same
\* chunk is returned at once, another one unloads first
LoadBegin ==
    \E q \in LoaderQualities, k \in LoaderChunkIds :
        /\ lcall.pc = "idle"
        /\ IF SameChunk(loaders[q], k)
           THEN /\ llast' = LoaderDone("load", q, k, <<loaders[q]>>, <<>>,
                                       loaders[q].chunk_reader, FALSE)
                /\ UNCHANGED <<loaders, readers, lcall>>
           ELSE LET u == _ChunkLoader_unload(loaders[q], readers)
                IN  /\ Len(readers) < MaxReaders
                    /\ loaders' = [loaders EXCEPT
                                      ![q] = [u.loader EXCEPT !.chunk_id = k]]
                    /\ readers' = u.readers
                    /\ lcall' = [pc |-> "read", quality |-> q, chunk_id |-> k,
                                 before |-> loaders[q], events |-> u.events]
                    /\ UNCHANGED llast
        /\ UNCHANGED <<cache, last, concVars, taskVars, mediaVars>>

\* self.read_chunk(chunk_id): the bytes, or an error that ends the call
LoadReadChunk ==
    \E ok \in BOOLEAN :
        /\ lcall.pc = "read"
        /\ IF ok
           THEN /\ lcall' = [lcall EXCEPT
                                !.pc = "open",
                                !.events = Append(@, Event("read_chunk", lcall.chunk_id))]
                /\ UNCHANGED llast
           ELSE /\ lcall' = LoaderNoCall
                /\ llast' = LoaderDone("load", lcall.quality, lcall.chunk_id,
                                       <<lcall.before>>,
                                       Append(lcall.events,
                                              Event("read_chunk", lcall.chunk_id)),
                                       NoReader, TRUE)
        /\ UNCHANGED <<loaders, readers>>
        /\ UNCHANGED <<cache, last, concVars, taskVars, mediaVars>>

\* self.chunk_reader = RandomAccessIterator(...); return self.chunk_reader
LoadOpenReader ==
    LET r == Len(readers) + 1
    IN  /\ lcall.pc = "open"
        /\ readers' = Append(readers, OpenReader(lcall.quality, lcall.chunk_id))
        /\ loaders' = [loaders EXCEPT ![lcall.quality].chunk_reader = r]
        /\ lcall' = LoaderNoCall
        /\ llast' = LoaderDone("load", lcall.quality, lcall.chunk_id,
                               <<lcall.before>>,
                               Append(lcall.events, Event("open", r)), r, FALSE)
        /\ UNCHANGED <<cache, last, concVars, taskVars, mediaVars>>

\* _ChunkLoader.unload() of one loader
Unload ==
    \E q \in LoaderQualities :
        LET u == _ChunkLoader_unload(loaders[q], readers)
        IN  /\ lcall.pc = "idle"
            /\ loaders' = [loaders EXCEPT ![q] = u.loader]
            /\ readers' = u.readers
            /\ llast' = LoaderDone("unload", q, NoChunk, <<loaders[q]>>, u.events,
                                   NoReader, FALSE)
            /\ UNCHANGED lcall
            /\ UNCHANGED <<cache, last, concVars, taskVars, mediaVars>>

\* SegmentFrameProvider.unload: every loader in turn
SegmentFrameProvider_unload ==
    LET c == _ChunkLoader_unload(loaders["compressed"], readers)
        o == _ChunkLoader_unload(loaders["original"], c.readers)
    IN  /\ lcall.pc = "idle"
        /\ loaders' = [q \in LoaderQualities |->
                          IF q = "compressed" THEN c.loader ELSE o.loader]
        /\ readers' = o.readers
        /\ llast' = LoaderDone("unload_all", "all", NoChunk,
                               <<loaders["compressed"], loaders["original"]>>,
                               c.events \o o.events, NoReader, FALSE)
        /\ UNCHANGED lcall
        /\ UNCHANGED <<cache, last, concVars, taskVars, mediaVars>>

NextLoader ==
    \/ LoadBegin
    \/ LoadReadChunk
    \/ LoadOpenReader
    \/ Unload
    \/ SegmentFrameProvider_unload

SpecLoader == InitLoader /\ [][NextLoader]_vars

(***************************************************************************)
(* Python values the frame providers compute with                          *)
(***************************************************************************)
Min(a, b) == IF a <= b THEN a ELSE b

\* math.ceil(a / b) for a >= 0 and b > 0
Ceil(a, b) == (a + b - 1) \div b

\* range(start, stop, step) with step > 0, as the sequence it yields
Range(start, stop, step) ==
    IF stop <= start THEN <<>>
    ELSE [i \in 1..Ceil(stop - start, step) |-> start + (i - 1) * step]

Elements(seq) == {seq[i] : i \in DOMAIN seq}

\* list.index
IndexOf(seq, x) == CHOOSE i \in DOMAIN seq : seq[i] = x /\ \A j \in 1..(i - 1) : seq[j] # x

\* seq[a:b] with 0 <= a <= b
Slice(seq, a, b) == SubSeq(seq, Min(a, Len(seq)) + 1, Min(b, Len(seq)))

\* A set of small non-negative integers as CPython keeps it: a hash table
\* of mask + 1 slots (-1 marks a free slot), a key's hash being the key
\* itself.  Iterating the set visits the slots in order.
EmptySet == [mask |-> 7, fill |-> 0, table |-> [i \in 0..7 |-> -1]]

\* the slot a new key goes to: from slot i, up to nine following slots are
\* tried when they fit the table, then the slot is recomputed
RECURSIVE SetProbe(_, _, _, _)
SetProbe(table, mask, i, perturb) ==
    LET probes == IF i + 9 <= mask THEN 9 ELSE 0
        free == {j \in i..(i + probes) : table[j] = -1}
    IN  IF free # {}
        THEN CHOOSE j \in free : \A k \in free : j <= k
        ELSE SetProbe(table, mask,
                      ((i * 5) + 1 + (perturb \div 32)) % (mask + 1),
                      perturb \div 32)

\* the keys of a table in slot order
SetSlots(s) ==
    SelectSeq([i \in 1..(s.mask + 1) |-> s.table[i - 1]], LAMBDA key : key # -1)

\* keys[n], keys[n + 1], ... put into a table one after the other
RECURSIVE SetInsertAll(_, _, _, _)
SetInsertAll(table, mask, keys, n) ==
    IF n > Len(keys) THEN table
    ELSE SetInsertAll(
             [table EXCEPT ![SetProbe(table, mask, keys[n] % (mask + 1), keys[n])] =
                               keys[n]],
             mask, keys, n + 1)

\* set.add of a key the set does not hold; a table filled to three fifths
\* is replaced by one of more than four times as many slots as keys, the
\* keys moved over in slot order
SetAdd(s, key) ==
    LET t == [mask |-> s.mask, fill |-> s.fill + 1,
              table |-> SetInsertAll(s.table, s.mask, <<key>>, 1)]
        size == CHOOSE n \in {8, 16, 32, 64, 128, 256} :
                    /\ n > t.fill * 4
                    /\ \A m \in {8, 16, 32, 64, 128, 256} : m > t.fill * 4 => n <= m
    IN  IF t.fill * 5 < t.mask * 3 THEN t
        ELSE [mask |-> size - 1, fill |-> t.fill,
              table |-> SetInsertAll([i \in 0..(size - 1) |-> -1], size - 1,
                                     SetSlots(t), 1)]

RECURSIVE SetOfSeq(_, _, _)
SetOfSeq(s, keys, n) ==
    IF n > Len(keys) THEN s ELSE SetOfSeq(SetAdd(s, keys[n]), keys, n + 1)

\* faulty variant: the keys come out in the order they were put in
SetIterationInOrder(keys) == keys

\* list(set(keys)) for distinct keys: the order in which a for loop over
\* the set visits them
SetIteration(keys) == SetSlots(SetOfSeq(EmptySet, keys, 1))

(***************************************************************************)
(* Properties of the media cache                                           *)
(***************************************************************************)
GetOrSetOps == {"get_segment_chunk", "get_or_set_task_chunk", "get_frame_context_images"}

LookupOps == {"get_task_chunk"}

\* the producer returned a pair (data, mime)
ReturnsPair(callback) == callback.kind = "return" /\ callback.val.len = 2

\* the producer returned a pair whose data is a buffer
ReturnsBuffer(callback) == ReturnsPair(callback) /\ ~callback.val.data.none

\* the "no artifact" value (None, None)
EmptyPair == Tuple2(NoneData, NoneMime)

\* the entry (bytes, mime, crc32(bytes)) of a pair (bytes, mime)
EntryFor(pair) == Stored(Tuple3(pair.data, pair.mime, CrcTable[pair.data.bytes]))

\* every outcome a producer of the model can have
AllOutcomes == UNION {CallerOutcomes(k) : k \in Keys} \cup ContextOutcomes

\* C1: CRC self-heal.  A get-or-set call on a key whose stored bytes do
\* not match the stored CRC runs the producer once; when the producer
\* returns a buffer the call returns the producer's (bytes, mime) and the
\* cache then holds (bytes, mime, crc32(bytes)) under the key.
C1_CrcSelfHeal ==
    (last.op \in GetOrSetOps /\ last.seen = "mismatch") =>
        /\ last.calls = 1
        /\ ReturnsBuffer(last.callback) =>
              /\ last.ret = Return(last.callback.val)
              /\ cache[last.key] = EntryFor(last.ret.val)

C1_Witness ==
    /\ last.op \in GetOrSetOps
    /\ last.seen = "mismatch"
    /\ ReturnsBuffer(last.callback)
    /\ last.ret.kind = "return"
    /\ cache[last.key] = EntryFor(last.ret.val)

\* C2: get-or-set on a miss.  With no entry under the key the producer
\* runs exactly once, the call returns exactly the pair the producer
\* returned, and for a buffer the entry (bytes, mime, crc32(bytes)) is
\* stored under the key.
C2_MissStoresAndReturns ==
    (last.op \in GetOrSetOps /\ last.seen = "absent") =>
        /\ last.calls = 1
        /\ ReturnsPair(last.callback) => last.ret = Return(last.callback.val)
        /\ ReturnsBuffer(last.callback) => cache[last.key] = EntryFor(last.callback.val)

C2_Witness ==
    /\ last.op \in GetOrSetOps
    /\ last.seen = "absent"
    /\ last.calls = 1
    /\ ReturnsBuffer(last.callback)
    /\ last.callback.val.data.bytes # <<>>
    /\ cache[last.key] = EntryFor(last.callback.val)

\* C3: get-or-set on a valid hit.  When the key holds an entry whose
\* stored CRC equals crc32 of its bytes, the call returns the stored
\* (bytes, mime), does not run the producer and changes no cache entry.
C3_ValidHit ==
    (last.op \in GetOrSetOps /\ last.seen = "valid") =>
        /\ last.calls = 0
        /\ last.changed = {}
        /\ last.ret = Return(Tuple2(cache[last.key].item.data, cache[last.key].item.mime))

C3_Witness ==
    /\ last.op \in GetOrSetOps
    /\ last.seen = "valid"
    /\ last.calls = 0
    /\ last.ret.kind = "return"
    /\ last.ret.val.data = cache[last.key].item.data

\* C4: no read hands out bytes that fail the integrity check: a lookup
\* (get_task_chunk, get_cloud_preview) of an entry whose stored CRC
\* differs from crc32 of its bytes returns None, and a get-or-set of such
\* an entry runs the producer.
C4_NoReadOfMismatch ==
    (last.op \in GetOrSetOps \cup LookupOps /\ last.seen = "mismatch") =>
        IF last.op \in LookupOps THEN last.ret = Return(PyNone) ELSE last.calls = 1

\* C5: no partial commit.  When the producer of a get-or-set call raises,
\* the call raises the same error and no cache entry has changed; a call
\* that changes the cache changes the entry of its key only, to
\* (bytes, mime, crc32(bytes)) of the buffer the producer returned.
C5_NoPartialCommit ==
    last.op \in GetOrSetOps =>
        /\ (last.calls = 1 /\ last.callback.kind = "raise") =>
              /\ last.ret = Raise(last.callback.exc)
              /\ last.changed = {}
        /\ last.changed # {} =>
              /\ last.changed = {last.key}
              /\ ReturnsBuffer(last.callback)
              /\ cache[last.key] = EntryFor(last.callback.val)

C5_Witness ==
    /\ last.op \in GetOrSetOps
    /\ last.calls = 1
    /\ last.callback.kind = "raise"
    /\ last.seen = "mismatch"
    /\ last.ret.kind = "raise"
    /\ cache[last.key].kind = "item"

\* C6: concurrent get-or-set calls on one key with a deterministic
\* producer.  Every finished call has returned the producer's
\* (bytes, mime); once all calls have finished and any of them wrote, the
\* cache holds the item of the last write and its stored CRC is crc32 of
\* its bytes.
C6_ConcurrentMisses ==
    /\ \A w \in Workers :
          pc[w] = "done" =>
              wret[w] = Return(Tuple2(BytesIO(producerOf[wkey[w]]), MimeOf(wkey[w])))
    /\ (\A w \in Workers : pc[w] = "done") =>
          \A k \in ConcKeys :
              lastWrite[k] # PyNone =>
                  /\ cache[k] = Stored(lastWrite[k])
                  /\ lastWrite[k].crc = CrcTable[lastWrite[k].data.bytes]
                  /\ lastWrite[k].data = BytesIO(producerOf[k])

\* all calls have finished and more than one of them ran the producer
C6_Witness ==
    /\ \A w \in Workers : pc[w] = "done"
    /\ \E k \in ConcKeys : produced[k] >= 2 /\ cache[k] = Stored(lastWrite[k])

\* C7: the lookup-only getters return None when the key has no entry or
\* the stored value cannot be deserialized, and otherwise exactly the
\* pair (bytes, mime) of the stored entry.
C7_LookupReturnsPair ==
    last.op \in LookupOps =>
        IF last.seen \in {"absent", "unreadable"}
        THEN last.ret = Return(PyNone)
        ELSE last.ret = Return(Tuple2(cache[last.key].item.data, cache[last.key].item.mime))

\* C8: delete is idempotent.  After remove_segment_chunk the key has no
\* entry and the call has returned without error, also when the key had
\* no entry (or an unreadable one); deleting again changes nothing; no
\* other key's entry is changed.
C8_DeleteIdempotent ==
    last.op = "remove_segment_chunk" =>
        /\ cache[last.key] = Absent
        /\ last.ret = Return(PyNone)
        /\ last.changed \subseteq {last.key}
        /\ last.seen = "absent" => last.changed = {}
        /\ _delete_cache_item(cache, last.key) = [cache |-> cache, res |-> Return(PyNone)]

C8_Witness ==
    /\ last.op = "remove_segment_chunk"
    /\ last.seen # "absent"
    /\ last.changed = {last.key}
    /\ \E k \in Keys \ {last.key} : cache[k].kind = "item"

\* C9: empty sentinel.  When the producer of a get-or-set call returns
\* the "no artifact" value (None, None), the call returns that value and
\* changes no cache entry, so that the next get-or-set on the key runs
\* the producer again, whatever it then does.
C9_EmptyNotStored ==
    (last.op \in GetOrSetOps /\ last.calls = 1 /\ last.callback = Return(EmptyPair)) =>
        /\ last.ret = Return(EmptyPair)
        /\ last.changed = {}
        /\ \A callback \in AllOutcomes :
              _get_or_set_cache_item(cache, last.key, callback).calls = 1

C9_Witness ==
    /\ last.op = "get_frame_context_images"
    /\ last.calls = 1
    /\ last.callback = Return(EmptyPair)
    /\ last.ret = Return(EmptyPair)
    /\ cache[last.key] = Absent

\* C10: SegmentFrameProvider.get_frame_context_images(f) returns None
\* without raising when no image record exists for (data_id, f), with
\* either storage method.
C10_NoImageRecordGivesNone ==
    (/\ last.op = "Segment_get_frame_context_images"
     /\ last.callback = prepare_context_images(NoImage, TRUE)) =>
        last.ret = Return(PyNone)

(***************************************************************************)
(* Task snapshots.  A task has size frames start_frame, start_frame +       *)
(* frame_step, ... up to stop_frame, in chunks of chunk_size frames.  Its  *)
(* RANGE segments hold segment_size successive frames each; a              *)
(* SPECIFIC_FRAMES segment, listed first, holds its first and last frame.  *)
(* The chunks are kept in the media cache (storage_method CACHE).          *)
(***************************************************************************)
MaxStartFrame == 6
MaxFrameStep == 2
MaxTaskSize == 3
MaxChunkSize == 3
MaxSegmentSize == 2

MakeTask(start, step, size, chunk_size, segment_size) ==
    LET frames == Range(start, start + (size * step), step)
        ranges == [i \in 1..Ceil(size, segment_size) |->
                      [id |-> i, type |-> "range",
                       start_frame |-> (i - 1) * segment_size,
                       frame_set |-> Slice(frames, (i - 1) * segment_size,
                                           i * segment_size)]]
        chosen == [id |-> Len(ranges) + 1, type |-> "specific_frames",
                   start_frame |-> 0,
                   frame_set |-> IF size = 1 THEN frames
                                 ELSE <<frames[1], frames[size]>>]
    IN  [id |-> 1, start_frame |-> start, stop_frame |-> start + ((size - 1) * step),
         frame_step |-> step, chunk_size |-> chunk_size, size |-> size,
         segments |-> <<chosen>> \o ranges]

TaskSnapshots ==
    {MakeTask(start, step, size, chunk_size, segment_size) :
        start \in 0..MaxStartFrame, step \in 1..MaxFrameStep, size \in 1..MaxTaskSize,
        chunk_size \in 1..MaxChunkSize, segment_size \in 1..MaxSegmentSize}

(***************************************************************************)
(* SegmentFrameProvider                                                    *)
(***************************************************************************)
\* faulty variant: the frame id is taken for its position in the segment
Segment_validate_frame_number_by_id(t, seg, frame_number) ==
    IF frame_number \notin Elements(seg.frame_set)
    THEN [error |-> "ValidationError", value |-> <<>>]
    ELSE [error |-> "none",
          value |-> <<frame_number, frame_number \div t.chunk_size,
                      frame_number % t.chunk_size>>]

\* SegmentFrameProvider.validate_frame_number
Segment_validate_frame_number(t, seg, frame_number) ==
    IF frame_number \notin Elements(seg.frame_set)
    THEN [error |-> "ValidationError", value |-> <<>>]
    ELSE LET index == IndexOf(seg.frame_set, frame_number) - 1
         IN  [error |-> "none",
              value |-> <<frame_number, index \div t.chunk_size,
                          index % t.chunk_size>>]

\* SegmentFrameProvider.get_chunk_number
Segment_get_chunk_number(t, frame_number) == frame_number \div t.chunk_size

\* SegmentFrameProvider.validate_chunk_number: does the number pass
Segment_validate_chunk_number(t, seg, chunk_number) ==
    /\ 0 <= chunk_number
    /\ chunk_number <= Ceil(Len(seg.frame_set), t.chunk_size)

\* faulty variant: the slice begins one frame late
prepare_range_segment_chunk_shifted(t, seg, chunk_number) ==
    Slice(seg.frame_set, t.chunk_size * chunk_number + 1,
          t.chunk_size * (chunk_number + 1) + 1)

\* MediaCache.prepare_range_segment_chunk: the frames put into the chunk
prepare_range_segment_chunk(t, seg, chunk_number) ==
    Slice(seg.frame_set, t.chunk_size * chunk_number, t.chunk_size * (chunk_number + 1))

\* MediaCache.get_segment_chunk on a cache of valid entries: the stored
\* chunk, or the prepared chunk, which is stored
MediaCache_get_segment_chunk(c, t, seg, chunk_number) ==
    LET key == _make_segment_chunk_key(seg.id, chunk_number, "original")
        hits == {e \in c : e.key = key}
        data == prepare_range_segment_chunk(t, seg, chunk_number)
    IN  IF hits # {}
        THEN [cache |-> c, data |-> (CHOOSE e \in hits : TRUE).data, key |-> key]
        ELSE [cache |-> c \cup {[key |-> key, data |-> data]}, data |-> data,
              key |-> key]

\* a call in progress: the cache, the loader's chunk and what was done
Progress(c) ==
    [cache |-> c, chunk_id |-> NoChunk, chunk |-> <<>>, reads |-> <<>>,
     frames |-> <<>>, error |-> "none"]

\* SegmentFrameProvider.get_chunk
Segment_get_chunk(st, t, seg, chunk_number) ==
    IF ~Segment_validate_chunk_number(t, seg, chunk_number)
    THEN [st EXCEPT !.error = "ValidationError"]
    ELSE LET r == MediaCache_get_segment_chunk(st.cache, t, seg, chunk_number)
         IN  [st EXCEPT !.cache = r.cache, !.reads = Append(@, r.key),
                        !.frames = r.data]

\* SegmentFrameProvider.get_frame with the loader of the quality asked for:
\* the frame is appended to st.frames
Segment_get_frame(st, t, seg, frame_number) ==
    LET v == Segment_validate_frame_number(t, seg, frame_number)
        chunk_number == v.value[2]
        r == MediaCache_get_segment_chunk(st.cache, t, seg, chunk_number)
        loaded == IF SameChunk(st, chunk_number) THEN st
                  ELSE [st EXCEPT !.cache = r.cache, !.reads = Append(@, r.key),
                                  !.chunk_id = chunk_number, !.chunk = r.data]
    IN  IF v.error # "none" THEN [st EXCEPT !.error = v.error]
        ELSE IF v.value[3] + 1 > Len(loaded.chunk)
             THEN [loaded EXCEPT !.error = "IndexError"]
             ELSE [loaded EXCEPT !.frames = Append(@, loaded.chunk[v.value[3] + 1])]

(***************************************************************************)
(* TaskFrameProvider                                                       *)
(***************************************************************************)
\* faulty variant: every number from start_frame to stop_frame passes
Task_validate_frame_number_any_step(t, frame_number) ==
    frame_number \in t.start_frame..t.stop_frame

\* TaskFrameProvider.validate_frame_number: does the number pass
Task_validate_frame_number(t, frame_number) ==
    frame_number \in Elements(Range(t.start_frame, t.stop_frame + 1, t.frame_step))

\* TaskFrameProvider.validate_chunk_number: does the number pass
Task_validate_chunk_number(t, chunk_number) ==
    /\ 0 <= chunk_number
    /\ chunk_number <= Ceil(t.size, t.chunk_size)

\* TaskFrameProvider.get_chunk_number
Task_get_chunk_number(t, frame_number) == frame_number \div t.chunk_size

\* faulty variant: the last chunk is not cut off at stop_frame
task_chunk_frame_range_unclipped(t, chunk_number) ==
    Range(t.start_frame + ((chunk_number * t.chunk_size) * t.frame_step),
          (t.start_frame + ((((chunk_number + 1) * t.chunk_size) - 1) * t.frame_step))
              + t.frame_step,
          t.frame_step)

\* TaskFrameProvider.get_chunk: the range task_chunk_frame_set is made of
task_chunk_frame_range(t, chunk_number) ==
    Range(t.start_frame + ((chunk_number * t.chunk_size) * t.frame_step),
          Min(t.start_frame + ((((chunk_number + 1) * t.chunk_size) - 1) * t.frame_step),
              t.stop_frame) + t.frame_step,
          t.frame_step)

\* TaskFrameProvider.get_chunk: the RANGE segments with a frame of the
\* chunk, sorted by start_frame
matching_segments(t, chunk_number) ==
    SortSeq(SelectSeq(t.segments,
                      LAMBDA s : /\ s.type = "range"
                                 /\ Elements(task_chunk_frame_range(t, chunk_number))
                                        \cap Elements(s.frame_set) # {}),
            LAMBDA a, b : a.start_frame < b.start_frame)

\* one segment's share of a joined chunk: the frames of the chunk, in the
\* order the set yields them, that the segment holds
RECURSIVE JoinFrames(_, _, _, _, _)
JoinFrames(st, t, seg, order, n) ==
    IF n > Len(order) \/ st.error # "none" THEN st
    ELSE JoinFrames(IF order[n] \in Elements(seg.frame_set)
                    THEN Segment_get_frame(st, t, seg, order[n]) ELSE st,
                    t, seg, order, n + 1)

\* faulty variant: the joined chunk is stored under the task chunk key
RECURSIVE JoinSegments_caching(_, _, _, _, _)
JoinSegments_caching(st, t, segs, order, m) ==
    IF m > Len(segs) \/ st.error # "none"
    THEN [st EXCEPT !.cache = @ \cup
             {[key |-> _make_task_chunk_key(
                           t.id,
                           (order[1] - t.start_frame) \div (t.frame_step * t.chunk_size),
                           "original"),
               data |-> st.frames]}]
    ELSE JoinSegments_caching(
             JoinFrames([st EXCEPT !.chunk_id = NoChunk, !.chunk = <<>>],
                        t, segs[m], order, 1),
             t, segs, order, m + 1)

\* the joined chunk: a new segment frame provider for each segment in turn
RECURSIVE JoinSegments(_, _, _, _, _)
JoinSegments(st, t, segs, order, m) ==
    IF m > Len(segs) \/ st.error # "none" THEN st
    ELSE JoinSegments(
             JoinFrames([st EXCEPT !.chunk_id = NoChunk, !.chunk = <<>>],
                        t, segs[m], order, 1),
             t, segs, order, m + 1)

\* TaskFrameProvider.get_chunk
Task_get_chunk(c, t, chunk_number) ==
    LET segs == matching_segments(t, chunk_number)
        provider == segs[1]
    IN  IF ~Task_validate_chunk_number(t, chunk_number)
        THEN [Progress(c) EXCEPT !.error = "ValidationError"]
        ELSE IF Len(segs) = 0
        THEN [Progress(c) EXCEPT !.error = "AssertionError"]
        ELSE IF Len(segs) = 1
        THEN Segment_get_chunk(Progress(c), t, provider,
                 Segment_get_chunk_number(t, chunk_number * t.chunk_size))
        ELSE JoinSegments(Progress(c), t, segs,
                          SetIteration(task_chunk_frame_range(t, chunk_number)), 1)

\* TaskFrameProvider._get_segment: the RANGE segments that hold the frame,
\* of which the first is taken
Task_get_segment(t, frame_number) ==
    SelectSeq(t.segments,
              LAMBDA s : s.type = "range" /\ frame_number \in Elements(s.frame_set))

\* TaskFrameProvider.get_frame
Task_get_frame(c, t, frame_number) ==
    IF ~Task_validate_frame_number(t, frame_number)
    THEN [Progress(c) EXCEPT !.error = "ValidationError"]
    ELSE IF Len(Task_get_segment(t, frame_number)) = 0
    THEN [Progress(c) EXCEPT !.error = "StopIteration"]
    ELSE Segment_get_frame(Progress(c), t, Task_get_segment(t, frame_number)[1],
                           frame_number)

(***************************************************************************)
(* Calls of the frame providers of one task, one at a time                 *)
(***************************************************************************)
FrameNoCall ==
    [op |-> "none", arg |-> 0, seg |-> 0, error |-> "none", value |-> <<>>,
     frame_set |-> {}, matching |-> <<>>, reads |-> <<>>, writes |-> {}, held |-> {}]

\* the record of a call: what it was asked, the frame set it computed, the
\* segments it chose, the error it raised or the value it gave, the cache
\* keys it read, in order, the entries it stored or changed, and the keys
\* the cache held before
FrameCall(op, arg, seg, frame_set, matching, st, before) ==
    [op |-> op, arg |-> arg, seg |-> seg, error |-> st.error,
     value |-> IF st.error = "none" THEN st.frames ELSE <<>>,
     frame_set |-> frame_set, matching |-> matching, reads |-> st.reads,
     writes |-> {e.key : e \in st.cache \ before},
     held |-> {e.key : e \in before}]

\* chunk 0 of the task as another user of the cache stored it with
\* MediaCache.get_or_set_task_chunk
OtherTaskChunk == [key |-> _make_task_chunk_key(1, 0, "original"), data |-> <<>>]

InitTask ==
    /\ cache = EmptyCache
    /\ last = NoCall
    /\ ConcIdle
    /\ producerOf = [k \in Keys |-> <<>>]
    /\ LoaderIdle
    /\ MediaIdle
    /\ task \in TaskSnapshots
    /\ chunkCache \in {{}, {OtherTaskChunk}}
    /\ flast = FrameNoCall

\* TaskFrameProvider.get_chunk(chunk_number)
TaskFrameProvider_get_chunk ==
    \E chunk_number \in -1..(Ceil(task.size, task.chunk_size) + 1) :
        LET st == Task_get_chunk(chunkCache, task, chunk_number)
            segs == matching_segments(task, chunk_number)
        IN  /\ chunkCache' = st.cache
            /\ flast' = FrameCall("get_chunk", chunk_number, 0,
                                  Elements(task_chunk_frame_range(task, chunk_number)),
                                  [i \in DOMAIN segs |-> segs[i].id], st, chunkCache)
            /\ UNCHANGED <<task, cache, last, concVars, loaderVars, mediaVars>>

\* TaskFrameProvider.get_frame(frame_number)
TaskFrameProvider_get_frame ==
    \E frame_number \in (task.start_frame - 1)..(task.stop_frame + 1) :
        LET st == Task_get_frame(chunkCache, task, frame_number)
            segs == Task_get_segment(task, frame_number)
        IN  /\ chunkCache' = st.cache
            /\ flast' = FrameCall("get_frame", frame_number, 0, {},
                                  [i \in DOMAIN segs |-> segs[i].id], st, chunkCache)
            /\ UNCHANGED <<task, cache, last, concVars, loaderVars, mediaVars>>

\* TaskFrameProvider.get_chunk_number(frame_number) of a frame of the task
TaskFrameProvider_get_chunk_number ==
    \E frame_number \in
            Elements(Range(task.start_frame, task.stop_frame + 1, task.frame_step)) :
        /\ flast' = FrameCall("get_chunk_number", frame_number, 0, {}, <<>>,
                              [Progress(chunkCache) EXCEPT
                                  !.frames = <<Task_get_chunk_number(task, frame_number)>>],
                              chunkCache)
        /\ UNCHANGED <<task, chunkCache, cache, last, concVars, loaderVars, mediaVars>>

\* SegmentFrameProvider.validate_frame_number(frame_number) of a segment
SegmentFrameProvider_validate_frame_number ==
    \E i \in DOMAIN task.segments,
       frame_number \in (task.start_frame - 1)..(task.stop_frame + 1) :
        LET v == Segment_validate_frame_number(task, task.segments[i], frame_number)
        IN  /\ flast' = FrameCall("validate_frame_number", frame_number,
                                  task.segments[i].id, {}, <<>>,
                                  [Progress(chunkCache) EXCEPT
                                      !.frames = v.value, !.error = v.error],
                                  chunkCache)
            /\ UNCHANGED <<task, chunkCache, cache, last, concVars, loaderVars, mediaVars>>

\* Chunk requests of a task against the shared chunk cache.
NextTask ==
    \/ TaskFrameProvider_get_chunk

SpecTask == InitTask /\ [][NextTask]_vars

\* Frame requests of a task. A cache entry is a function of its key alone,
\* so the entries chunk requests leave behind are the ones frame requests
\* store themselves.
NextFrame ==
    \/ TaskFrameProvider_get_frame

SpecFrame == InitTask /\ [][NextFrame]_vars

NextAddress ==
    \/ TaskFrameProvider_get_chunk_number
    \/ SegmentFrameProvider_validate_frame_number

SpecAddress == InitTask /\ [][NextAddress]_vars

(***************************************************************************)
(* Claims about the chunk loader                                           *)
(***************************************************************************)
\* the readers a loader opened that are still open
OpenReadersOf(q) ==
    {r \in DOMAIN readers : readers[r].quality = q /\ readers[r].open}

\* the close events of the readers the given loaders held, in order
ClosesOf(held) ==
    [i \in 1..Len(held) |-> Event("close", held[i].chunk_reader)]

HeldLoaders(before) == SelectSeq(before, LAMBDA l : l.chunk_reader # NoReader)

\* C11: in every state a loader has at most one open reader, the one it
\* holds; while load(b) fetches the bytes of chunk b and opens its reader no
\* reader of that loader is open, and a load(b) that follows a load(a) with
\* a # b closes the reader of a, then reads chunk b, then opens its reader.
C11_LoaderSingleResident ==
    /\ \A q \in LoaderQualities :
          /\ Cardinality(OpenReadersOf(q)) <= 1
          /\ OpenReadersOf(q) \subseteq {loaders[q].chunk_reader}
    /\ lcall.pc \in {"read", "open"} => OpenReadersOf(lcall.quality) = {}
    /\ (/\ llast.op = "load"
        /\ ~llast.raised
        /\ llast.before[1].chunk_reader # NoReader
        /\ llast.before[1].chunk_id # llast.chunk_id)
       => llast.events = <<Event("close", llast.before[1].chunk_reader),
                           Event("read_chunk", llast.chunk_id),
                           Event("open", llast.ret)>>

\* a load of chunk b has completed on a loader that held the reader of
\* another chunk a
C11_Witness ==
    /\ llast.op = "load"
    /\ ~llast.raised
    /\ llast.before[1].chunk_reader # NoReader
    /\ llast.before[1].chunk_id # llast.chunk_id
    /\ ~readers[llast.before[1].chunk_reader].open
    /\ readers[llast.ret].open
    /\ readers[llast.ret].chunk = llast.chunk_id

\* C12: a load(b) on a loader that holds the reader a successful load(b)
\* opened calls no read_chunk, opens and closes no reader, and returns that
\* same reader.
C12_RepeatedLoadIdempotent ==
    (/\ llast.op = "load"
     /\ llast.before[1].chunk_id = llast.chunk_id
     /\ llast.before[1].chunk_reader # NoReader)
    => /\ llast.events = <<>>
       /\ ~llast.raised
       /\ llast.ret = llast.before[1].chunk_reader
       /\ readers[llast.ret].chunk = llast.chunk_id
       /\ lcall.pc = "idle" => readers[llast.ret].open

\* the second of two loads of the same chunk has returned
C12_Witness ==
    /\ llast.op = "load"
    /\ llast.before[1].chunk_id = llast.chunk_id
    /\ llast.before[1].chunk_reader # NoReader
    /\ llast.ret # NoReader
    /\ readers[llast.ret].open

\* C13: after unload the loader has no reader and no chunk id, the reader
\* it held has been closed once and no reader is ever closed twice; unload
\* of an empty loader does nothing; the unload of the segment frame provider
\* does this for the loaders of both qualities; and a load that finds the
\* loader as unload left it reads the chunk and opens a reader again.
C13_ExplicitUnload ==
    /\ llast.op \in {"unload", "unload_all"}
       => /\ llast.events = ClosesOf(HeldLoaders(llast.before))
          /\ \A i \in 1..Len(llast.events) :
                /\ ~readers[llast.events[i].arg].open
                /\ readers[llast.events[i].arg].closes = 1
    /\ (llast.op = "unload" /\ lcall.pc = "idle")
       => loaders[llast.quality] = NewLoader
    /\ (llast.op = "unload_all" /\ lcall.pc = "idle")
       => \A q \in LoaderQualities : loaders[q] = NewLoader
    /\ \A r \in DOMAIN readers :
          readers[r].closes = (IF readers[r].open THEN 0 ELSE 1)
    /\ (llast.op = "load" /\ llast.before[1] = NewLoader /\ ~llast.raised)
       => /\ llast.events = <<Event("read_chunk", llast.chunk_id),
                              Event("open", llast.ret)>>
          /\ readers[llast.ret].chunk = llast.chunk_id

\* a chunk was loaded, unloaded, and the same chunk has been loaded again
C13_Witness ==
    /\ llast.op = "load"
    /\ llast.before[1] = NewLoader
    /\ ~llast.raised
    /\ \E r \in DOMAIN readers :
          /\ r < llast.ret
          /\ readers[r].quality = llast.quality
          /\ readers[r].chunk = llast.chunk_id
          /\ readers[r].closes = 1

(***************************************************************************)
(* Claims about the frame providers                                        *)
(***************************************************************************)
SegmentById(id) == CHOOSE seg \in Elements(task.segments) : seg.id = id

\* the frame ids of the task
TaskFrames ==
    {f \in task.start_frame..task.stop_frame :
        (f - task.start_frame) % task.frame_step = 0}

\* the numbers of the chunks of the task
TaskChunks == 0..(Ceil(task.size, task.chunk_size) - 1)

\* the frame ids of a chunk of the task
ChunkFrames(k) ==
    {task.start_frame + (i * task.frame_step) :
        i \in (k * task.chunk_size)..(((k + 1) * task.chunk_size) - 1)}
    \cap {f \in Int : f <= task.stop_frame}

Ascending(seq) == \A i \in 1..(Len(seq) - 1) : seq[i] < seq[i + 1]

\* C14: validate_frame_number(f) of a segment gives (f, k, o) with
\* k * chunk_size + o the number of frames of the segment before f and
\* 0 <= o < chunk_size when the segment holds f, and fails with a
\* validation error when it does not.
C14_SegmentAddressing ==
    flast.op = "validate_frame_number"
    => LET frames == Elements(SegmentById(flast.seg).frame_set)
       IN  IF flast.arg \in frames
           THEN /\ flast.error = "none"
                /\ Len(flast.value) = 3
                /\ flast.value[1] = flast.arg
                /\ (flast.value[2] * task.chunk_size) + flast.value[3]
                       = Cardinality({g \in frames : g < flast.arg})
                /\ 0 <= flast.value[3]
                /\ flast.value[3] < task.chunk_size
           ELSE flast.error = "ValidationError"

\* a frame beyond the first chunk of a segment that does not begin at
\* frame 0 has been addressed
C14_Witness ==
    /\ flast.op = "validate_frame_number"
    /\ flast.error = "none"
    /\ flast.value[2] >= 1
    /\ flast.arg # flast.value[2] * task.chunk_size + flast.value[3]

C16_SingleSegmentChunk ==
    (flast.op = "get_chunk" /\ flast.arg \in TaskChunks /\ Len(flast.matching) = 1)
    => /\ flast.error = "none"
       /\ Elements(flast.value) = ChunkFrames(flast.arg)
       /\ Len(flast.value) = Cardinality(ChunkFrames(flast.arg))

\* C17: when several RANGE segments hold frames of task chunk k, the
\* frames get_chunk(k) hands to the chunk writer are the frame ids of task
\* chunk k, each once, in ascending order.
C17_JoinedChunkOrdering ==
    (flast.op = "get_chunk" /\ flast.arg \in TaskChunks /\ Len(flast.matching) > 1)
    => /\ flast.error = "none"
       /\ Elements(flast.value) = ChunkFrames(flast.arg)
       /\ Len(flast.value) = Cardinality(ChunkFrames(flast.arg))
       /\ Ascending(flast.value)

\* C18: a get_chunk of the task frame provider stores or changes no entry
\* under a task chunk key, only entries under segment chunk keys; a task
\* chunk entry another user stored stays as it was.
C18_JoinedChunksNotCached ==
    /\ flast.op = "get_chunk" => \A key \in flast.writes : key[1] = "segment"
    /\ \A e \in chunkCache : e.key[1] = "task" => e = OtherTaskChunk

\* a joined chunk has been built from chunks that were not in the cache
C18_Witness ==
    /\ flast.op = "get_chunk"
    /\ flast.error = "none"
    /\ Len(flast.matching) > 1
    /\ flast.writes # {}
    /\ Len(flast.value) > 1

\* C19: get_chunk_number(f) of a frame id f of the task is
\* (f - start_frame) div (frame_step * chunk_size), the number of the task
\* chunk whose frame set holds f.
C19_ChunkNumberOfFrame ==
    flast.op = "get_chunk_number"
    => /\ flast.value[1]
              = (flast.arg - task.start_frame) \div (task.frame_step * task.chunk_size)
       /\ flast.arg \in Elements(task_chunk_frame_range(task, flast.value[1]))

\* C20: get_frame(f) of the task frame provider gives frame f of the one
\* RANGE segment that holds f, reading only that segment's chunks, when f
\* is a frame id of the task; for any other f it fails with a validation
\* error and no cache entry is read or stored.
C20_TaskFrameRouting ==
    flast.op = "get_frame"
    => IF flast.arg \in TaskFrames
       THEN /\ flast.error = "none"
            /\ flast.value = <<flast.arg>>
            /\ Len(flast.matching) = 1
            /\ SegmentById(flast.matching[1]).type = "range"
            /\ flast.arg \in Elements(SegmentById(flast.matching[1]).frame_set)
            /\ Len(flast.reads) = 1
            /\ flast.reads[1][1] = "segment"
            /\ flast.reads[1][2] = flast.matching[1]
            /\ flast.writes \subseteq {flast.reads[1]}
       ELSE /\ flast.error = "ValidationError"
            /\ flast.reads = <<>>
            /\ flast.writes = {}

\* a frame that the SPECIFIC_FRAMES segment holds as well has been read
\* through a RANGE segment that is not the first one
C20_Witness ==
    /\ flast.op = "get_frame"
    /\ flast.error = "none"
    /\ flast.arg \in Elements(task.segments[1].frame_set)
    /\ task.segments[1].type = "specific_frames"
    /\ flast.matching[1] > 1
    /\ flast.writes # {}

(***************************************************************************)
(* MediaCache._read_raw_frames: the raw frames of a list of frame ids.    *)
(* The function is a generator: its body runs when the first frame is     *)
(* asked for.  A task's media is a video, images in a cloud storage with  *)
(* a manifest, or local/share images with one image record per frame.     *)
(***************************************************************************)
MaxFrameId == 2
MaxFrameIds == 3

Backends == {"video", "cloud", "local"}

\* an image record of the task's data: (frame, path)
ImageRecord(frame) == [frame |-> frame, path |-> 100 + frame]

\* the item yielded for a source path: (source_path, source_path, None)
MediaItem(path) == <<path, path, "None">>

\* db_data.images.order_by("frame") for the frames that have a record
ImagesOrderedByFrame(frames) ==
    SortSeq([i \in 1..Cardinality(frames) |->
                ImageRecord(CHOOSE f \in frames :
                    Cardinality({g \in frames : g < f}) = i - 1)],
            LAMBDA a, b : a.frame < b.frame)

\* faulty variant: the frame id list is not looked at
pairwise_sorted_unchecked(frame_ids) == TRUE

\* the assertion over pairwise(frame_ids): prev_frame <= cur_frame
pairwise_sorted(frame_ids) ==
    \A i \in 1..(Len(frame_ids) - 1) : frame_ids[i] <= frame_ids[i + 1]

\* the loop over db_images from record i on, j being the position of
\* next_requested_frame_id in frame_ids (past the end: None)
RECURSIVE WalkImages(_, _, _, _, _)
WalkImages(db_images, i, frame_ids, j, media) ==
    IF i > Len(db_images) THEN [media |-> media, next |-> j]
    ELSE LET hit == db_images[i].frame = frame_ids[j]
             m == IF hit THEN Append(media, MediaItem(db_images[i].path)) ELSE media
             n == IF hit THEN j + 1 ELSE j
         IN  IF n > Len(frame_ids) THEN [media |-> m, next |-> n]
             ELSE WalkImages(db_images, i + 1, frame_ids, n, m)

\* faulty variant: every record of the filtered range is taken
_read_raw_images_unfiltered(images, frame_ids) ==
    IF frame_ids = <<>> THEN [error |-> "none", media |-> <<>>]
    ELSE LET db_images == SelectSeq(images, LAMBDA r :
                              /\ r.frame >= frame_ids[1]
                              /\ r.frame <= frame_ids[Len(frame_ids)])
         IN  [error |-> "none",
              media |-> [i \in DOMAIN db_images |-> MediaItem(db_images[i].path)]]

\* MediaCache._read_raw_images for local/share images: the media it
\* collects before it yields any
_read_raw_images(images, frame_ids) ==
    IF frame_ids = <<>> THEN [error |-> "none", media |-> <<>>]
    ELSE LET db_images == SelectSeq(images, LAMBDA r :
                              /\ r.frame >= frame_ids[1]
                              /\ r.frame <= frame_ids[Len(frame_ids)])
             w == WalkImages(db_images, 1, frame_ids, 1, <<>>)
         IN  IF w.next <= Len(frame_ids)
             THEN [error |-> "AssertionError", media |-> <<>>]
             ELSE [error |-> "none", media |-> w.media]

\* reader.iterate_frames(frame_ids) of a reader with a manifest: the frame
\* of each requested id, in request order
ManifestReader_iterate_frames(frame_ids) ==
    [i \in DOMAIN frame_ids |-> MediaItem(200 + frame_ids[i])]

\* a generator that was created and not yet asked for a frame
NewGenerator ==
    [pc |-> "created", opened |-> "none", media |-> <<>>, yielded |-> <<>>,
     error |-> "none"]

\* the body of _read_raw_frames up to its first yield
_read_raw_frames(r) ==
    IF ~pairwise_sorted(r.frame_ids)
    THEN [NewGenerator EXCEPT !.pc = "raised", !.error = "AssertionError"]
    ELSE IF r.backend \in {"video", "cloud"}
    THEN [NewGenerator EXCEPT !.pc = "running", !.opened = r.backend,
                              !.media = ManifestReader_iterate_frames(r.frame_ids)]
    ELSE LET m == _read_raw_images(r.images, r.frame_ids)
         IN  IF m.error # "none"
             THEN [NewGenerator EXCEPT !.pc = "raised", !.error = m.error,
                       !.opened = IF r.frame_ids = <<>> THEN "none" ELSE "images"]
             ELSE [NewGenerator EXCEPT !.pc = "running", !.media = m.media,
                       !.opened = IF r.frame_ids = <<>> THEN "none" ELSE "images"]

\* next() on the generator: the next collected item, or the end
NextItem(g) ==
    IF Len(g.yielded) < Len(g.media)
    THEN [g EXCEPT !.yielded = Append(@, g.media[Len(g.yielded) + 1])]
    ELSE [g EXCEPT !.pc = "done"]

FrameIdLists ==
    UNION {[1..n -> 0..MaxFrameId] : n \in 0..MaxFrameIds}

ReaderRequests ==
    {[backend |-> b, frame_ids |-> ids, images |-> <<>>] :
        b \in {"video", "cloud"}, ids \in FrameIdLists}
    \cup {[backend |-> "local", frame_ids |-> ids,
           images |-> ImagesOrderedByFrame(frames)] :
            ids \in FrameIdLists, frames \in SUBSET (0..MaxFrameId)}

InitReader ==
    /\ req \in ReaderRequests
    /\ run = NewGenerator
    /\ cache = EmptyCache
    /\ last = NoCall
    /\ ConcIdle
    /\ producerOf = [k \in Keys |-> <<>>]
    /\ LoaderIdle
    /\ TaskIdle

\* the first next() on the generator runs its body up to the first yield
ReaderFirstNext ==
    /\ run.pc = "created"
    /\ LET g == _read_raw_frames(req)
       IN  run' = IF g.pc = "running" THEN NextItem(g) ELSE g
    /\ UNCHANGED <<req, cache, last, concVars, loaderVars, taskVars>>

\* a later next()
ReaderNext ==
    /\ run.pc = "running"
    /\ run' = NextItem(run)
    /\ UNCHANGED <<req, cache, last, concVars, loaderVars, taskVars>>

\* closing(...) leaves the generator before its end
ReaderClose ==
    /\ run.pc \in {"created", "running"}
    /\ run' = [run EXCEPT !.pc = "closed"]
    /\ UNCHANGED <<req, cache, last, concVars, loaderVars, taskVars>>

NextReader ==
    \/ ReaderFirstNext
    \/ ReaderNext
    \/ ReaderClose

SpecReader == InitReader /\ [][NextReader]_vars

(***************************************************************************)
(* Claims about the raw frame reader                                       *)
(***************************************************************************)
NonDecreasing(seq) == \A i, j \in DOMAIN seq : i < j => seq[i] <= seq[j]

StrictlyIncreasing(seq) == \A i, j \in DOMAIN seq : i < j => seq[i] < seq[j]

\* the frames of the request that have an image record
RecordedFrames == {req.images[i].frame : i \in DOMAIN req.images}

\* every requested id can be served by the task's media
Servable == req.backend = "local" => Elements(req.frame_ids) \subseteq RecordedFrames

\* the generator has been asked for a frame at least once
Pulled == run.pc \in {"running", "done", "raised"}

\* C23: a frame id list that is not non-decreasing makes _read_raw_frames
\* fail when it is first asked for a frame, before any frame is yielded and
\* before any media source is opened.
C23_ReaderInputCheck ==
    ~NonDecreasing(req.frame_ids) =>
        /\ run.yielded = <<>>
        /\ run.opened = "none"
        /\ Pulled => run.pc = "raised" /\ run.error = "AssertionError"

C23_Witness ==
    /\ ~NonDecreasing(req.frame_ids)
    /\ run.pc = "raised"
    /\ req.backend = "video"

\* C24: for a non-decreasing list of servable frame ids in which an id
\* repeats, the reader runs to its end and yields one frame per entry of
\* the list, with the local/share image backend as with the others.
C24_DuplicatesYieldAgain ==
    (/\ NonDecreasing(req.frame_ids)
     /\ ~StrictlyIncreasing(req.frame_ids)
     /\ Servable
     /\ Pulled)
        => /\ run.pc # "raised"
           /\ run.pc = "done" => Len(run.yielded) = Len(req.frame_ids)

\* the items the local/share reader is to yield for the request
RequestedImages ==
    [i \in DOMAIN req.frame_ids |-> MediaItem(ImageRecord(req.frame_ids[i]).path)]

\* C30: for a strictly increasing list of frame ids that all have an image
\* record, the local/share reader yields one item per requested id, in
\* request order, each the image of the record with that frame id; the
\* records of frames in between that were not requested are skipped.
C30_LocalReaderOrder ==
    (/\ req.backend = "local"
     /\ StrictlyIncreasing(req.frame_ids)
     /\ Servable
     /\ Pulled)
        => /\ run.pc # "raised"
           /\ run.yielded = SubSeq(RequestedImages, 1, Len(run.yielded))
           /\ run.pc = "done" => run.yielded = RequestedImages

C30_Witness ==
    /\ req.backend = "local"
    /\ req.frame_ids = <<0, 2>>
    /\ RecordedFrames = {0, 1, 2}
    /\ run.pc = "done"
    /\ run.yielded = <<MediaItem(100), MediaItem(102)>>

(***************************************************************************)
(* MediaCache.prepare_masked_range_segment_chunk: chunk chunk_number of a  *)
(* SPECIFIC_FRAMES segment.  get_frames is a generator the chunk writer    *)
(* drains; it yields one entry per slot and pulls the raw frame reader at  *)
(* the slots whose frame id is in chunk_frame_ids.                         *)
(***************************************************************************)
\* dummy_frame: the bytes of a 1x1 RGB image; raw frames are numbered from 200
Placeholder == -1

\* the raw frame the reader yields for a frame id
RawFrame(frame_id) == ManifestReader_iterate_frames(<<frame_id>>)[1][1]

\* the frame id get_frames computes for position frame_idx of the chunk
slot_frame_idx(t, chunk_number, frame_idx) ==
    t.start_frame + chunk_number * t.chunk_size + frame_idx * t.frame_step

\* a task and a SPECIFIC_FRAMES segment of it that owns the frames chosen
MaskedRequests ==
    {[task |-> [start_frame |-> start, stop_frame |-> start + ((size - 1) * step),
                frame_step |-> step, chunk_size |-> chunk_size, size |-> size],
      frame_set |-> SelectSeq(Range(start, start + (size * step), step),
                              LAMBDA f : f \in chosen),
      chunk_number |-> k] :
        start \in 0..MaxFrameId, step \in 1..MaxFrameStep, size \in 1..MaxTaskSize,
        chunk_size \in 1..MaxChunkSize, k \in 0..MaxTaskSize,
        chosen \in SUBSET (0..(MaxFrameId + (MaxTaskSize - 1) * MaxFrameStep))}

InitMasked ==
    /\ req \in {r \in MaskedRequests :
                   /\ r.frame_set # <<>>
                   /\ r.chunk_number <= Ceil(r.task.size, r.task.chunk_size)}
    /\ run = [pc |-> "idle"]
    /\ cache = EmptyCache
    /\ last = NoCall
    /\ ConcIdle
    /\ producerOf = [k \in Keys |-> <<>>]
    /\ LoaderIdle
    /\ TaskIdle

\* the call up to writer.save_as_chunk: chunk_frame_ids is cut out of the
\* segment's frame_set and the generators are created
prepare_masked_range_segment_chunk ==
    /\ run.pc = "idle"
    /\ run' = [pc |-> "created",
               chunk_frame_ids |-> Slice(req.frame_set,
                                         req.task.chunk_size * req.chunk_number,
                                         req.task.chunk_size * (req.chunk_number + 1)),
               reader |-> NewGenerator, frame_idx |-> 0, slots |-> <<>>,
               written |-> <<>>, pulls |-> 0, error |-> "none"]
    /\ UNCHANGED <<req, cache, last, concVars, loaderVars, taskVars>>

\* the writer asks get_frames for its next entry: one turn of the loop
\* over range(chunk_size)
get_frames ==
    /\ run.pc \in {"created", "running"}
    /\ LET t == req.task
           frame_idx == slot_frame_idx(t, req.chunk_number, run.frame_idx)
           reader == IF run.reader.pc = "created"
                     THEN _read_raw_frames([backend |-> "video",
                                            frame_ids |-> run.chunk_frame_ids,
                                            images |-> <<>>])
                     ELSE run.reader
           pulled == NextItem(reader)
       IN  run' =
             IF run.frame_idx >= t.chunk_size \/ t.stop_frame < frame_idx
             THEN [run EXCEPT !.pc = "done"]
             ELSE IF frame_idx \notin Elements(run.chunk_frame_ids)
             THEN [run EXCEPT !.pc = "running", !.frame_idx = @ + 1,
                              !.slots = Append(@, frame_idx),
                              !.written = Append(@, Placeholder)]
             ELSE IF pulled.pc # "running"
             THEN [run EXCEPT !.pc = "raised", !.reader = pulled, !.pulls = @ + 1,
                              !.error = IF pulled.pc = "done" THEN "StopIteration"
                                        ELSE pulled.error]
             ELSE [run EXCEPT !.pc = "running", !.frame_idx = @ + 1,
                              !.reader = pulled, !.pulls = @ + 1,
                              !.slots = Append(@, frame_idx),
                              !.written = Append(@, pulled.yielded[Len(pulled.yielded)][1])]
    /\ UNCHANGED <<req, cache, last, concVars, loaderVars, taskVars>>

NextMasked ==
    \/ prepare_masked_range_segment_chunk
    \/ get_frames

SpecMasked == InitMasked /\ [][NextMasked]_vars

(***************************************************************************)
(* Claims about masked-range chunks                                        *)
(***************************************************************************)
\* the task frame id slot i of chunk k stands for
SlotFrame(i) ==
    req.task.start_frame + req.chunk_number * req.task.chunk_size * req.task.frame_step
        + i * req.task.frame_step

\* C21: slot i of chunk k of a masked-range chunk stands for the task frame
\* id start_frame + k * chunk_size * frame_step + i * frame_step.
C21_MaskedSlotAddressing ==
    run.pc \in {"running", "done"} =>
        \A i \in DOMAIN run.slots : run.slots[i] = SlotFrame(i - 1)

\* the slots of the chunk: those whose frame id does not exceed stop_frame
ChunkSlots ==
    {i \in 0..(req.task.chunk_size - 1) : SlotFrame(i) <= req.task.stop_frame}

\* C22: the sequence written for chunk k has one entry per slot in slot
\* order up to the last slot whose frame id does not exceed stop_frame; a
\* slot whose frame id is one of the chunk's segment frames carries the raw
\* frame of that id, every other slot the placeholder; the reader is pulled
\* once per member slot and never past its end.
C22_PlaceholderRule ==
    /\ run.pc # "raised"
    /\ run.pc = "done" =>
        /\ Len(run.written) = Cardinality(ChunkSlots)
        /\ \A i \in ChunkSlots :
              run.written[i + 1] =
                  IF SlotFrame(i) \in Elements(run.chunk_frame_ids)
                  THEN RawFrame(SlotFrame(i))
                  ELSE Placeholder
        /\ run.pulls = Cardinality({i \in ChunkSlots :
                                      SlotFrame(i) \in Elements(run.chunk_frame_ids)})

(***************************************************************************)
(* MediaCache.get_or_set_cloud_preview and _prepare_cloud_preview.  A      *)
(* cloud storage binding lists manifests; of each the storage knows when   *)
(* it was last modified, and the storage directory may hold a local copy   *)
(* with its own mtime.  A manifest lists the names of the stored objects.  *)
(***************************************************************************)
MaxManifests == 2
MaxTime == 1

\* no local copy of a manifest
NoFile == -1

\* the mtime of a file written by a download: later than every remote change
DownloadTime == MaxTime + 1

_make_cloud_storage_preview_key(storage_id) == <<"cloudstorage_preview", storage_id>>

\* mimetypes.guess_type(path)[0]
GuessType(name) ==
    CASE name = "a.jpg" -> "image/jpeg"
      [] name = "b.png" -> "image/png"
      [] OTHER -> NoneMime

\* the bytes the storage holds for an object
ObjectBytes(name) == IF name = "a.jpg" THEN <<0>> ELSE <<1>>

\* faulty variant: a copy that exists is taken as it is
manifest_is_stale_only_missing(mtime, last_modified) == mtime = NoFile

\* not os.path.exists(path) or getmtime(path) < get_file_last_modified(name)
manifest_is_stale(mtime, last_modified) ==
    mtime = NoFile \/ mtime < last_modified

\* preview_info = manifest[0]
preview_info(manifest) == manifest[1]

CloudStorages ==
    UNION {[1..n -> [last_modified : 0..MaxTime,
                     entries : {<<>>, <<"a.jpg", "b.png">>, <<"b.png">>}]] :
              n \in 0..MaxManifests}

CloudIdle(files, store) ==
    [pc |-> "idle", files |-> files, store |-> store, before |-> store,
     seen |-> files, i |-> 1, events |-> <<>>, preview_path |-> <<>>,
     calls |-> 0, ret |-> Return(PyNone)]

InitCloud ==
    /\ req \in [id : {1}, manifests : CloudStorages]
    /\ \E files \in [DOMAIN req.manifests -> {NoFile} \cup (0..MaxTime)] :
          run = CloudIdle(files, [k \in {_make_cloud_storage_preview_key(req.id)} |-> Absent])
    /\ cache = EmptyCache
    /\ last = NoCall
    /\ ConcIdle
    /\ producerOf = [k \in Keys |-> <<>>]
    /\ LoaderIdle
    /\ TaskIdle

\* the end of a call: _get_or_set_cache_item with what the producer did
CloudReturn(r, events, callback) ==
    LET done == _get_or_set_cache_item(r.store, _make_cloud_storage_preview_key(req.id),
                                       callback)
    IN  [r EXCEPT !.pc = "idle", !.store = done.cache, !.ret = done.res,
                  !.calls = done.calls, !.events = events]

\* get_or_set_cloud_preview up to the loop over the manifests: a valid
\* entry is returned; otherwise the producer starts and fails at once when
\* the binding has no manifest
get_or_set_cloud_preview ==
    /\ run.pc = "idle"
    /\ LET start == [CloudIdle(run.files, run.store) EXCEPT !.pc = "loop"]
           item == LookupItem(run.store, _make_cloud_storage_preview_key(req.id))
       IN  run' = IF ~NeedsCreate(item) THEN CloudReturn(start, <<>>, NotCalled)
                  ELSE IF Len(req.manifests) = 0
                  THEN CloudReturn(start, <<>>, Raise("ValidationError"))
                  ELSE start
    /\ UNCHANGED <<req, cache, last, concVars, loaderVars, taskVars>>

\* one turn of the loop over db_storage.manifests.all()
_prepare_cloud_preview_manifest ==
    /\ run.pc = "loop"
    /\ LET m == req.manifests[run.i]
           stale == manifest_is_stale(run.files[run.i], m.last_modified)
           events == (IF stale THEN <<Event("download_file", run.i)>> ELSE <<>>)
                     \o <<Event("load", run.i)>>
           files == IF stale THEN [run.files EXCEPT ![run.i] = DownloadTime]
                    ELSE run.files
       IN  run' = IF Len(m.entries) = 0
                  THEN [run EXCEPT !.files = files, !.events = @ \o events,
                                   !.i = @ + 1,
                                   !.pc = IF run.i = Len(req.manifests) THEN "after"
                                          ELSE "loop"]
                  ELSE [run EXCEPT !.files = files, !.events = @ \o events,
                                   !.preview_path = <<run.i, preview_info(m.entries)>>,
                                   !.pc = "after"]
    /\ UNCHANGED <<req, cache, last, concVars, loaderVars, taskVars>>

\* after the loop: NotFound, or the object is downloaded and returned with
\* the MIME type guessed from its name; then the cache item is set
_prepare_cloud_preview_return ==
    /\ run.pc = "after"
    /\ run' = IF run.preview_path = <<>>
              THEN CloudReturn(run, run.events, Raise("NotFound"))
              ELSE CloudReturn(run,
                       Append(run.events, Event("download_fileobj", run.preview_path)),
                       Return(Tuple2(BytesIO(ObjectBytes(run.preview_path[2])),
                                     GuessType(run.preview_path[2]))))
    /\ UNCHANGED <<req, cache, last, concVars, loaderVars, taskVars>>

NextCloud ==
    \/ get_or_set_cloud_preview
    \/ _prepare_cloud_preview_manifest
    \/ _prepare_cloud_preview_return

SpecCloud == InitCloud /\ [][NextCloud]_vars

(***************************************************************************)
(* Claims about the cloud storage preview                                  *)
(***************************************************************************)
\* a call of get_or_set_cloud_preview has ended and its producer was run
ProducerRan == run.pc = "idle" /\ run.calls = 1

\* the positions in the event list at which ev happened to manifest i
EventsAt(ev, i) ==
    {n \in DOMAIN run.events : run.events[n].ev = ev /\ run.events[n].arg = i}

\* the manifests loaded, in the order of loading
LoadedManifests ==
    LET loads == SelectSeq(run.events, LAMBDA e : e.ev = "load")
    IN  [n \in DOMAIN loads |-> loads[n].arg]

ObjectDownloads == SelectSeq(run.events, LAMBDA e : e.ev = "download_fileobj")

NonEmptyManifests == {i \in DOMAIN req.manifests : req.manifests[i].entries # <<>>}

\* what a call whose producer ran has done, the error of a binding without
\* manifests being no_manifest
CloudPreviewSelection(no_manifest) ==
    ProducerRan =>
        IF NonEmptyManifests # {}
        THEN LET first == CHOOSE i \in NonEmptyManifests :
                              \A j \in NonEmptyManifests : i <= j
                 name == req.manifests[first].entries[1]
             IN  /\ LoadedManifests = [n \in 1..first |-> n]
                 /\ Len(ObjectDownloads) = 1
                 /\ ObjectDownloads[1].arg = <<first, name>>
                 /\ run.events[Len(run.events)].ev = "download_fileobj"
                 /\ run.ret = Return(Tuple2(BytesIO(ObjectBytes(name)), GuessType(name)))
        ELSE /\ LoadedManifests = [n \in DOMAIN req.manifests |-> n]
             /\ ObjectDownloads = <<>>
             /\ run.ret = Raise(IF Len(req.manifests) = 0 THEN no_manifest
                                ELSE "NotFound")
             /\ run.store = run.before

\* C25: the manifests are visited in order, empty ones are skipped, the
\* first entry of the first non-empty manifest is downloaded and returned;
\* when no manifest has an entry the call fails with NotFound and no cache
\* entry is written.
C25_CloudPreviewSelection == CloudPreviewSelection("NotFound")

\* C26: a manifest is downloaded exactly when its local copy is missing or
\* older than the remote manifest, the download comes right before the
\* manifest is loaded, and a copy at least as new as the remote is loaded
\* as it is.
C26_CloudPreviewFreshness ==
    run.pc \in {"loop", "after"} \/ ProducerRan =>
        \A i \in DOMAIN req.manifests :
            LET old == run.seen[i] = NoFile
                       \/ run.seen[i] < req.manifests[i].last_modified
            IN  /\ EventsAt("download_file", i) # {} => EventsAt("load", i) # {}
                /\ EventsAt("load", i) # {} =>
                      /\ Cardinality(EventsAt("load", i)) = 1
                      /\ IF old
                         THEN EventsAt("download_file", i) =
                                  {n - 1 : n \in EventsAt("load", i)}
                         ELSE EventsAt("download_file", i) = {}

C26_Witness ==
    /\ ProducerRan
    /\ Len(req.manifests) = 1
    /\ run.seen[1] = 0
    /\ req.manifests[1].last_modified = 1
    /\ Len(run.events) = 3
    /\ run.events[1] = Event("download_file", 1)
    /\ run.events[2] = Event("load", 1)
    /\ run.events[3].ev = "download_fileobj"
    /\ run.ret.kind = "return"

(***************************************************************************)
(* MediaCache.get_or_set_segment_preview and _prepare_segment_preview.     *)
(***************************************************************************)
Dimensions == {"2d", "3d"}

\* what an instance of TaskFrameProvider has: the names its class and
\* IFrameProvider define
TaskFrameProvider_attributes ==
    {"VIDEO_FRAME_EXT", "VIDEO_FRAME_MIME", "unload", "_av_frame_to_png_bytes",
     "_convert_frame", "__init__", "_db_task", "validate_frame_number",
     "validate_chunk_number", "get_chunk_number", "get_preview", "get_chunk",
     "get_frame", "get_frame_context_images", "iterate_frames", "_get_segment",
     "_get_segment_frame_provider"}

\* _prepare_segment_preview: what it returns or raises, the frames it read
\* and the quality it read them at.  The argument of get_frame is evaluated
\* first; looking up a name the provider does not have raises
\* AttributeError.
_prepare_segment_preview(t, seg, dimension) ==
    IF dimension = "3d"
    THEN [ret |-> Return(Tuple2(BytesIO(<<0>>), "image/jpeg")), frames |-> <<>>,
          quality |-> "none"]
    ELSE IF "get_rel_frame_number" \notin TaskFrameProvider_attributes
    THEN [ret |-> Raise("AttributeError"), frames |-> <<>>, quality |-> "none"]
    ELSE LET lowest == CHOOSE f \in Elements(seg.frame_set) :
                           \A g \in Elements(seg.frame_set) : f <= g
             st == Segment_get_frame(Progress({}), t, seg, lowest)
         IN  [ret |-> IF st.error # "none" THEN Raise(st.error)
                      ELSE Return(Tuple2(BytesIO(<<1>>), "image/jpeg")),
              frames |-> st.frames, quality |-> "compressed"]

PreviewIdle(store) ==
    [pc |-> "idle", store |-> store, before |-> store, calls |-> 0,
     ret |-> Return(PyNone), frames |-> <<>>, quality |-> "none"]

InitPreview ==
    /\ \E t \in TaskSnapshots :
          req \in [task : {t}, segment : DOMAIN t.segments, dimension : Dimensions]
    /\ run = PreviewIdle([k \in {<<"segment_preview", req.task.segments[req.segment].id>>}
                            |-> Absent])
    /\ cache = EmptyCache
    /\ last = NoCall
    /\ ConcIdle
    /\ producerOf = [k \in Keys |-> <<>>]
    /\ LoaderIdle
    /\ TaskIdle

\* MediaCache.get_or_set_segment_preview(db_segment)
get_or_set_segment_preview ==
    LET seg == req.task.segments[req.segment]
        made == _prepare_segment_preview(req.task, seg, req.dimension)
        done == _get_or_set_cache_item(run.store, <<"segment_preview", seg.id>>, made.ret)
    IN  /\ run' = [pc |-> "returned", store |-> done.cache, before |-> run.store,
                   calls |-> done.calls, ret |-> done.res,
                   frames |-> IF done.calls = 0 THEN <<>> ELSE made.frames,
                   quality |-> IF done.calls = 0 THEN "none" ELSE made.quality]
        /\ UNCHANGED <<req, cache, last, concVars, loaderVars, taskVars>>

\* the stored preview is evicted
PreviewExpires ==
    /\ run.pc = "returned"
    /\ run.store # [k \in DOMAIN run.store |-> Absent]
    /\ run' = PreviewIdle([k \in DOMAIN run.store |-> Absent])
    /\ UNCHANGED <<req, cache, last, concVars, loaderVars, taskVars>>

NextPreview ==
    \/ get_or_set_segment_preview
    \/ PreviewExpires

SpecPreview == InitPreview /\ [][NextPreview]_vars

\* C27: for a 2D segment get_or_set_segment_preview succeeds, and the
\* preview it builds is made from the lowest-numbered frame of the segment,
\* read at COMPRESSED quality through SegmentFrameProvider.get_frame.
C27_SegmentPreviewSourceFrame ==
    (run.pc = "returned" /\ req.dimension = "2d") =>
        LET frame_set == req.task.segments[req.segment].frame_set
        IN  /\ run.ret.kind = "return"
            /\ run.calls = 1 =>
                  /\ run.quality = "compressed"
                  /\ Len(run.frames) = 1
                  /\ run.frames[1] \in Elements(frame_set)
                  /\ \A f \in Elements(frame_set) : run.frames[1] <= f

(***************************************************************************)
(* iterate_frames of a task frame provider (provider 0) and of the segment *)
(* frame provider of a RANGE segment (provider: its place in the task's    *)
(* segments).  The function is a generator; every next() runs it up to its *)
(* next yield.  An Optional[int] is None or an int.                        *)
(***************************************************************************)
NoneInt == [none |-> TRUE, value |-> 0]

SomeInt(n) == [none |-> FALSE, value |-> n]

\* bool(x) of an Optional[int]
TruthyInt(x) == ~x.none /\ x.value # 0

\* (stop_frame + 1) if stop_frame else None
range_stop(stop_frame) ==
    IF TruthyInt(stop_frame) THEN SomeInt(stop_frame.value + 1) ELSE NoneInt

\* the frame ids a provider serves, ascending
ProviderFrames(t, provider) ==
    IF provider = 0 THEN Range(t.start_frame, t.stop_frame + 1, t.frame_step)
    ELSE t.segments[provider].frame_set

IterateTasks ==
    {MakeTask(start, step, size, chunk_size, segment_size) :
        start \in 0..1, step \in 1..MaxFrameStep, size \in 1..MaxTaskSize,
        chunk_size \in 1..MaxChunkSize, segment_size \in 1..MaxSegmentSize}

IterateRequests ==
    UNION {UNION {
        {[task |-> t, provider |-> p, start_frame |-> ProviderFrames(t, p)[i],
          stop_frame |-> e] :
            i \in DOMAIN ProviderFrames(t, p),
            e \in {NoneInt, SomeInt(0)}
                  \cup {SomeInt(ProviderFrames(t, p)[j]) : j \in DOMAIN ProviderFrames(t, p)}} :
        p \in {0} \cup {n \in DOMAIN t.segments : t.segments[n].type = "range"}} :
        t \in IterateTasks}

InitIterate ==
    /\ req \in {r \in IterateRequests :
                   r.stop_frame.none \/ r.stop_frame.value = 0
                   \/ r.start_frame <= r.stop_frame.value}
    /\ run = [pc |-> "created", idx |-> 0, st |-> Progress({})]
    /\ cache = EmptyCache
    /\ last = NoCall
    /\ ConcIdle
    /\ producerOf = [k \in Keys |-> <<>>]
    /\ LoaderIdle
    /\ TaskIdle

\* self.get_frame(idx) inside the loop: a task provider builds a segment
\* frame provider for every frame, a segment provider keeps its loader
IterateGetFrame(st, r, idx) ==
    IF r.provider = 0
    THEN LET got == Task_get_frame(st.cache, r.task, idx)
         IN  [got EXCEPT !.reads = st.reads \o @, !.frames = st.frames \o @]
    ELSE Segment_get_frame(st, r.task, r.task.segments[r.provider], idx)

\* next() on the generator: range(...) is built on the first call, then
\* one turn of the loop
iterate_frames ==
    /\ run.pc \in {"created", "running"}
    /\ LET stop == range_stop(req.stop_frame)
           idx == IF run.pc = "created" THEN req.start_frame ELSE run.idx
           st == IterateGetFrame(run.st, req, idx)
       IN  run' =
             IF stop.none
             THEN [run EXCEPT !.pc = "raised", !.st.error = "TypeError"]
             ELSE IF idx >= stop.value THEN [run EXCEPT !.pc = "done"]
             ELSE IF st.error # "none"
             THEN [run EXCEPT !.pc = "raised", !.idx = idx, !.st = st]
             ELSE [run EXCEPT !.pc = "running", !.idx = idx + 1, !.st = st]
    /\ UNCHANGED <<req, cache, last, concVars, loaderVars, taskVars>>

NextIterate ==
    \/ iterate_frames

SpecIterate == InitIterate /\ [][NextIterate]_vars

(***************************************************************************)
(* Claims about iterate_frames                                             *)
(***************************************************************************)
\* the frames of the provider from start_frame up to frame id upto, ascending
FramesUpTo(upto) ==
    SelectSeq(ProviderFrames(req.task, req.provider),
              LAMBDA f : req.start_frame <= f /\ f <= upto)

\* the yielded frames are the first of those expected and, at the end, all
YieldsExactly(expected) ==
    /\ run.pc # "raised"
    /\ Len(run.st.frames) <= Len(expected)
    /\ run.st.frames = SubSeq(expected, 1, Len(run.st.frames))
    /\ run.pc = "done" => run.st.frames = expected

\* the RANGE segment of the task that holds frame f, and the key of the
\* chunk of that segment that holds it
ChunkKeyOf(f) ==
    LET seg == Task_get_segment(req.task, f)[1]
    IN  _make_segment_chunk_key(seg.id,
            (IndexOf(seg.frame_set, f) - 1) \div req.task.chunk_size, "original")

\* C28: without an upper bound (stop_frame None, and likewise 0)
\* iterate_frames yields the frames from start_frame through the last valid
\* frame and then ends, rather than failing.
C28_IterateWithoutUpperBound ==
    ~TruthyInt(req.stop_frame) => YieldsExactly(FramesUpTo(req.task.stop_frame))

\* C29: for valid frame ids s <= e iterate_frames(s, e) yields one frame
\* for each valid frame id of the provider in [s, e], ascending, and nothing
\* else, also with frame_step > 1; a chunk is fetched only when a frame
\* inside it is reached.  (stop_frame = 0 stands for no upper bound: C28.)
C29_IterateOverRange ==
    (TruthyInt(req.stop_frame) /\ req.start_frame <= req.stop_frame.value
     /\ req.stop_frame.value \in Elements(ProviderFrames(req.task, req.provider)))
        => /\ YieldsExactly(FramesUpTo(req.stop_frame.value))
           /\ Elements(run.st.reads) \subseteq
                  {ChunkKeyOf(run.st.frames[i]) : i \in DOMAIN run.st.frames}

(***************************************************************************)
(* Claims about a loader whose read fails                                  *)
(***************************************************************************)
\* C36: between calls a loader has a chunk id exactly when it holds a
\* reader, and a load that returns gives a reader, also when an earlier
\* load of the same chunk failed in read_chunk.
C36_LoaderConsistentAfterFailure ==
    lcall.pc = "idle" =>
        /\ \A q \in LoaderQualities :
               (loaders[q].chunk_id # NoChunk) <=> (loaders[q].chunk_reader # NoReader)
        /\ (llast.op = "load" /\ ~llast.raised) => llast.ret # NoReader

(***************************************************************************)
(* Claims about the chunks of RANGE segments and the frames read from them *)
(***************************************************************************)
\* the RANGE segments of the task
RangeSegments == {seg \in Elements(task.segments) : seg.type = "range"}

\* the chunk numbers validate_chunk_number accepts for a segment
AcceptedChunks(seg) ==
    {k \in -1..(Len(seg.frame_set) + 1) : Segment_validate_chunk_number(task, seg, k)}

\* C31: chunk k of a RANGE segment holds the frames at the positions
\* chunk_size * k .. chunk_size * (k + 1) - 1 of the frame_set, in that
\* order; a frame f of the segment that validate_frame_number gives the
\* coordinates (f, k, o) is the frame at offset o of chunk k and lies in no
\* other chunk; get_frame(f) reads chunk k of the segment and returns f.
C31_RangeProducerAddressing ==
    /\ \A seg \in RangeSegments : \A k \in AcceptedChunks(seg) :
           LET chunk == prepare_range_segment_chunk(task, seg, k)
               first == task.chunk_size * k
           IN  /\ Len(chunk) = Min(task.chunk_size,
                                   IF Len(seg.frame_set) > first
                                   THEN Len(seg.frame_set) - first ELSE 0)
               /\ \A p \in DOMAIN chunk : chunk[p] = seg.frame_set[first + p]
    /\ \A seg \in RangeSegments : \A f \in Elements(seg.frame_set) :
           LET v == Segment_validate_frame_number(task, seg, f)
           IN  /\ v.error = "none"
               /\ v.value[1] = f
               /\ v.value[3] + 1 \in DOMAIN prepare_range_segment_chunk(task, seg, v.value[2])
               /\ prepare_range_segment_chunk(task, seg, v.value[2])[v.value[3] + 1] = f
               /\ {k \in AcceptedChunks(seg) :
                       f \in Elements(prepare_range_segment_chunk(task, seg, k))}
                      = {v.value[2]}
    /\ (flast.op = "get_frame" /\ flast.matching # <<>>) =>
           LET seg == SegmentById(flast.matching[1])
               v == Segment_validate_frame_number(task, seg, flast.arg)
           IN  /\ flast.error = "none"
               /\ flast.value = <<flast.arg>>
               /\ flast.reads = <<_make_segment_chunk_key(seg.id, v.value[2], "original")>>

\* a frame was read from an offset past the first of a chunk, and its id
\* is neither its place in the segment nor its offset in the chunk
C31_Witness ==
    /\ flast.op = "get_frame"
    /\ flast.error = "none"
    /\ flast.matching # <<>>
    /\ LET seg == SegmentById(flast.matching[1])
           v == Segment_validate_frame_number(task, seg, flast.arg)
       IN  /\ v.value[3] > 0
           /\ flast.arg # IndexOf(seg.frame_set, flast.arg) - 1
           /\ flast.arg # v.value[3]
           /\ flast.value = <<flast.arg>>

(***************************************************************************)
(* get_chunk of the task frame provider and of the segment frame provider  *)
(* of a RANGE segment, for every chunk number around the accepted ones     *)
(***************************************************************************)
\* SegmentFrameProvider.get_chunk(chunk_number) of a RANGE segment
SegmentFrameProvider_get_chunk ==
    \E i \in DOMAIN task.segments :
        \E chunk_number \in -1..(Ceil(Len(task.segments[i].frame_set), task.chunk_size) + 1) :
            LET st == Segment_get_chunk(Progress(chunkCache), task, task.segments[i],
                                        chunk_number)
            IN  /\ task.segments[i].type = "range"
                /\ chunkCache' = st.cache
                /\ flast' = FrameCall("segment_get_chunk", chunk_number,
                                      task.segments[i].id, {}, <<>>, st, chunkCache)
                /\ UNCHANGED <<task, cache, last, concVars, loaderVars, mediaVars>>

\* a task whose frames begin at 0 or 1, and an empty media cache
InitChunk ==
    /\ cache = EmptyCache
    /\ last = NoCall
    /\ ConcIdle
    /\ producerOf = [k \in Keys |-> <<>>]
    /\ LoaderIdle
    /\ MediaIdle
    /\ task \in IterateTasks
    /\ chunkCache = {}
    /\ flast = FrameNoCall

NextChunk ==
    \/ TaskFrameProvider_get_chunk
    \/ SegmentFrameProvider_get_chunk

SpecChunk == InitChunk /\ [][NextChunk]_vars

\* C33: get_chunk(k) of a chunk number k that validate_chunk_number
\* accepts gives a chunk with at least one frame, for the task provider and
\* for the segment provider; it does not end in an error or an empty chunk.
C33_AcceptedChunkIsReal ==
    /\ (flast.op = "get_chunk" /\ Task_validate_chunk_number(task, flast.arg))
           => (flast.error = "none" /\ flast.value # <<>>)
    /\ (flast.op = "segment_get_chunk"
        /\ Segment_validate_chunk_number(task, SegmentById(flast.seg), flast.arg))
           => (flast.error = "none" /\ flast.value # <<>>)

(***************************************************************************)
(* Claims about the frames of a masked segment over all its chunks         *)
(***************************************************************************)
\* the place of task frame f among the task's frames, counted from 0
TaskPosition(f) == (f - req.task.start_frame) \div req.task.frame_step

\* C34: every frame of a SPECIFIC_FRAMES segment is carried as a raw frame
\* by the chunk whose window holds it, in the slot that stands for it, and
\* in no other slot of any chunk; it is never left as a placeholder only.
C34_MaskedNoFrameLost ==
    /\ run.pc # "raised"
    /\ run.pc = "done" =>
           \A f \in Elements(req.frame_set) :
               LET k == TaskPosition(f) \div req.task.chunk_size
                   slot == (TaskPosition(f) % req.task.chunk_size) + 1
               IN  /\ k = req.chunk_number =>
                          /\ slot \in DOMAIN run.written
                          /\ run.written[slot] = RawFrame(f)
                   /\ \A j \in DOMAIN run.written :
                          run.written[j] = RawFrame(f) =>
                              (k = req.chunk_number /\ j = slot)

(***************************************************************************)
(* A frame provider from its construction to its unload: a task frame      *)
(* provider, or the segment frame provider of one segment (a RANGE segment *)
(* or the SPECIFIC_FRAMES segment of a job).  The chunks are kept in the   *)
(* media cache.  A reader is recorded with the class that opened it and    *)
(* the MIME type of the chunk it was opened on.                            *)
(***************************************************************************)
\* how many readers one provider's calls may open in one run
MaxOpened == 2

ChunkTypes == {"imageset", "video"}

\* SegmentFrameProvider.__init__: the reader class for a chunk type
reader_class(chunk_type) ==
    IF chunk_type = "video" THEN "VideoReader" ELSE "ZipReader"

\* db_data.compressed_chunk_type or db_data.original_chunk_type
ChunkTypeOf(r, quality) ==
    IF quality = "compressed" THEN r.compressed_chunk_type ELSE r.original_chunk_type

\* prepare_chunk: writer_classes[quality]
writer_classes(r, quality) ==
    IF quality = "compressed"
    THEN (IF r.compressed_chunk_type = "video" THEN "Mpeg4CompressedChunkWriter"
          ELSE "ZipCompressedChunkWriter")
    ELSE (IF r.original_chunk_type = "video" THEN "Mpeg4ChunkWriter"
          ELSE "ZipChunkWriter")

get_chunk_mime_type_for_writer(writer) ==
    IF writer \in {"ZipChunkWriter", "ZipCompressedChunkWriter"}
    THEN "application/zip" ELSE "video/mp4"

\* MediaCache.prepare_segment_chunk: the MIME type of the chunk it gives.
\* A RANGE chunk is written by prepare_chunk, a masked one always by a
\* ZipCompressedChunkWriter.
prepare_segment_chunk(r, seg, quality) ==
    IF seg.type = "range"
    THEN get_chunk_mime_type_for_writer(writer_classes(r, quality))
    ELSE get_chunk_mime_type_for_writer("ZipCompressedChunkWriter")

\* RandomAccessIterator(self.reader_class([data])) on a chunk of a segment
OpenChunkReader(r, seg, quality, chunk_id) ==
    [quality |-> quality, chunk |-> chunk_id, open |-> TRUE, closes |-> 0,
     segment |-> seg.id, reader_class |-> reader_class(ChunkTypeOf(r, quality)),
     mime |-> prepare_segment_chunk(r, seg, quality)]

\* _ChunkLoader.load(chunk_id) as a whole; ok: read_chunk and the reader
\* construction succeed
_ChunkLoader_load(loader, rs, chunk_id, reader, ok) ==
    IF SameChunk(loader, chunk_id)
    THEN [loader |-> loader, readers |-> rs, ret |-> loader.chunk_reader,
          raised |-> FALSE]
    ELSE LET u == _ChunkLoader_unload(loader, rs)
         IN  IF ok
             THEN [loader |-> [chunk_id |-> chunk_id,
                               chunk_reader |-> Len(u.readers) + 1],
                   readers |-> Append(u.readers, reader),
                   ret |-> Len(u.readers) + 1, raised |-> FALSE]
             ELSE [loader |-> [u.loader EXCEPT !.chunk_id = chunk_id],
                   readers |-> u.readers, ret |-> NoReader, raised |-> TRUE]

\* SegmentFrameProvider.get_frame on the loaders s.loaders: the frame is
\* entry frame_offset of the reader the loader returns
SegmentProvider_get_frame(s, r, seg, quality, frame_number, ok) ==
    LET v == Segment_validate_frame_number(r.task, seg, frame_number)
        l == _ChunkLoader_load(s.loaders[quality], s.readers, v.value[2],
                               OpenChunkReader(r, seg, quality, v.value[2]), ok)
    IN  IF v.error # "none" THEN [s EXCEPT !.error = v.error]
        ELSE [s EXCEPT !.loaders[quality] = l.loader,
                       !.readers = l.readers,
                       !.error = IF l.raised THEN "Exception"
                                 ELSE IF l.ret = NoReader THEN "TypeError"
                                 ELSE "none",
                       !.frames = IF l.raised \/ l.ret = NoReader THEN @
                                  ELSE Append(@, [reader |-> l.ret,
                                                  offset |-> v.value[3]])]

\* TaskFrameProvider.get_frame: a segment frame provider is built for the
\* call and dropped after it, with its loaders
TaskProvider_get_frame(s, r, quality, frame_number, ok) ==
    IF ~Task_validate_frame_number(r.task, frame_number)
    THEN [s EXCEPT !.error = "ValidationError"]
    ELSE IF Len(Task_get_segment(r.task, frame_number)) = 0
    THEN [s EXCEPT !.error = "StopIteration"]
    ELSE LET built == [s EXCEPT !.loaders = [q \in LoaderQualities |-> NewLoader]]
             got == SegmentProvider_get_frame(
                        built, r, Task_get_segment(r.task, frame_number)[1],
                        quality, frame_number, ok)
         IN  [got EXCEPT !.loaders = s.loaders]

\* self.get_frame(frame_number) of the provider of the request
Provider_get_frame(s, r, quality, frame_number, ok) ==
    IF r.provider = 0 THEN TaskProvider_get_frame(s, r, quality, frame_number, ok)
    ELSE SegmentProvider_get_frame(s, r, r.task.segments[r.provider], quality,
                                   frame_number, ok)

\* the loop of iterate_frames, drained: get_frame(idx) for idx from idx up
\* to stop, until one fails
RECURSIVE IterateLoop(_, _, _, _, _, _)
IterateLoop(s, r, quality, idx, stop, ok) ==
    IF idx >= stop \/ s.error # "none" THEN s
    ELSE IterateLoop(Provider_get_frame(s, r, quality, idx, ok), r, quality,
                     idx + 1, stop, ok)

\* the call in progress: the provider's loaders, the readers opened so far
ProviderProgress ==
    [loaders |-> loaders, readers |-> readers, error |-> "none", frames |-> <<>>]

\* the tasks a provider is built on: the frames 0 .. MaxTaskSize - 1
ProviderTasks ==
    {MakeTask(0, 1, MaxTaskSize, chunk_size, MaxSegmentSize) :
        chunk_size \in 1..MaxChunkSize}

ProviderRequests ==
    UNION {{[task |-> t, provider |-> p, compressed_chunk_type |-> c,
             original_chunk_type |-> o] :
                p \in {0} \cup DOMAIN t.segments, c \in ChunkTypes, o \in ChunkTypes} :
           t \in ProviderTasks}

\* TaskFrameProvider.__init__ (no loaders) and SegmentFrameProvider.__init__
\* (a loader for each quality)
InitProvider ==
    /\ req \in ProviderRequests
    /\ run = [op |-> "none", error |-> "none", yielded |-> 0]
    /\ loaders = [q \in LoaderQualities |-> NewLoader]
    /\ readers = <<>>
    /\ lcall = <<>>
    /\ llast = <<>>
    /\ cache = EmptyCache
    /\ last = NoCall
    /\ ConcIdle
    /\ producerOf = [k \in Keys |-> <<>>]
    /\ TaskIdle

\* get_frame(frame_number, quality=quality)
FrameProvider_get_frame ==
    \E quality \in LoaderQualities, ok \in BOOLEAN,
       frame_number \in (req.task.start_frame - 1)..(req.task.stop_frame + 1) :
        LET s == Provider_get_frame(ProviderProgress, req, quality, frame_number, ok)
        IN  /\ Len(s.readers) <= MaxOpened
            /\ loaders' = s.loaders
            /\ readers' = s.readers
            /\ run' = [op |-> "get_frame", error |-> s.error, yielded |-> Len(s.frames)]
            /\ UNCHANGED <<req, lcall, llast, cache, last, concVars, taskVars>>

\* iterate_frames(start_frame, stop_frame, quality=quality), drained, with
\* every chunk readable
FrameProvider_iterate_frames ==
    \E quality \in LoaderQualities,
       start_frame \in req.task.start_frame..req.task.stop_frame,
       stop_frame \in {NoneInt} \cup
                      {SomeInt(n) : n \in req.task.start_frame..req.task.stop_frame} :
        LET stop == range_stop(stop_frame)
            s == IF stop.none THEN [ProviderProgress EXCEPT !.error = "TypeError"]
                 ELSE IterateLoop(ProviderProgress, req, quality, start_frame,
                                  stop.value, TRUE)
        IN  /\ Len(s.readers) <= MaxOpened
            /\ loaders' = s.loaders
            /\ readers' = s.readers
            /\ run' = [op |-> "iterate_frames", error |-> s.error,
                    yielded |-> Len(s.frames)]
            /\ UNCHANGED <<req, lcall, llast, cache, last, concVars, taskVars>>

\* unload(): IFrameProvider.unload does nothing, SegmentFrameProvider.unload
\* unloads every loader
FrameProvider_unload ==
    LET c == _ChunkLoader_unload(loaders["compressed"], readers)
        o == _ChunkLoader_unload(loaders["original"], c.readers)
    IN  /\ loaders' = IF req.provider = 0 THEN loaders
                      ELSE [q \in LoaderQualities |->
                               IF q = "compressed" THEN c.loader ELSE o.loader]
        /\ readers' = IF req.provider = 0 THEN readers ELSE o.readers
        /\ run' = [op |-> "unload", error |-> "none", yielded |-> 0]
        /\ UNCHANGED <<req, lcall, llast, cache, last, concVars, taskVars>>

NextProvider ==
    \/ FrameProvider_get_frame
    \/ FrameProvider_iterate_frames
    \/ FrameProvider_unload

SpecProvider == InitProvider /\ [][NextProvider]_vars

(***************************************************************************)
(* Claims about a frame provider's readers                                 *)
(***************************************************************************)
\* C32: after unload() of a frame provider no chunk reader that its
\* get_frame and iterate_frames calls opened is still open, for a task
\* frame provider as for a segment frame provider.
C32_TeardownReleasesReaders ==
    run.op = "unload" => \A i \in DOMAIN readers : ~readers[i].open

\* C35: a reader is opened by ZipReader exactly on an application/zip chunk
\* and by VideoReader exactly on a video/mp4 chunk, for RANGE and
\* SPECIFIC_FRAMES segments, both qualities and every chunk type setting.
C35_ReaderMatchesContainer ==
    \A i \in DOMAIN readers :
        /\ readers[i].reader_class = "ZipReader" <=> readers[i].mime = "application/zip"
        /\ readers[i].reader_class = "VideoReader" <=> readers[i].mime = "video/mp4"

====
